---- MODULE Spec2Model ----
(***************************************************************************)
(* GML front end of GM8Emulator: the recursive-descent parser of           *)
(* src/gml/ast.rs (AST::new, read_line, read_binary_tree,                  *)
(* read_btree_expression, read_function_call, get_op_precedence).          *)
(*                                                                         *)
(* The lexer (src/gml/lexer.rs) and the token types (src/gml/token.rs) are *)
(* not part of the sources at hand: the parser is modelled over the token  *)
(* stream the lexer yields, a finite sequence of tokens followed by None.  *)
(***************************************************************************)
EXTENDS Integers, Sequences, FiniteSets, TLC

VARIABLES
    tokens,       \* the token stream of Lexer::new(source), in order
    pos,          \* lex: index of the next token lex.next() yields
    expressions,  \* AST::new's local Vec<Expr>
    pc,           \* where AST::new is: "read_line" (about to call it), "match" (on
                  \* its result), "done" (returned), "panic" (unwound), "rendered"
    res,          \* the result of the last read_line call of AST::new's loop
    ret,          \* what AST::new returned (NoRet while it runs)
    out           \* the returned expressions as format!("{}", expr) renders them,
                  \* once the caller has rendered them

vars == <<tokens, pos, expressions, pc, res, ret, out>>

(***************************************************************************)
(* Tokens (token.rs, as ast.rs uses them).                                 *)
(***************************************************************************)
Kw(v) == [t |-> "Keyword", v |-> v]
Op(v) == [t |-> "Operator", v |-> v]
Sep(v) == [t |-> "Separator", v |-> v]
Ident(v) == [t |-> "Identifier", v |-> v]
RealTok(v) == [t |-> "Real", v |-> v]
StringTok(v) == [t |-> "String", v |-> v]
\* Option<Token>::None: the end of the input, or no first_token handed over.
NoneTok == [t |-> "None", v |-> ""]

\* Option<Operator>::None and Option<Expr>::None.
NoOp == "NoOp"
NoneExpr == [k |-> "None"]

(***************************************************************************)
(* Expr (ast.rs 14-113).                                                   *)
(***************************************************************************)
LiteralIdentifier(id) == [k |-> "LiteralIdentifier", v |-> id]
\* a prefix operator bound to the atom alone, the postfix chain put around it
UnaryOfAtom(op, child) ==
    IF child.k = "Binary" /\ child.op \in {"Deref", "Index"}
    THEN [k |-> "Binary", op |-> child.op,
          left |-> [k |-> "Unary", op |-> op, child |-> child.left],
          right |-> child.right]
    ELSE [k |-> "Unary", op |-> op, child |-> child]
LiteralReal(r) == [k |-> "LiteralReal", v |-> r]
LiteralString(s) == [k |-> "LiteralString", v |-> s]
Unary(op, child) == [k |-> "Unary", op |-> op, child |-> child]
Binary(op, left, right) == [k |-> "Binary", op |-> op, left |-> left, right |-> right]
DoUntil(cond, body) == [k |-> "DoUntil", cond |-> cond, body |-> body]
For(start, cond, step, body) ==
    [k |-> "For", start |-> start, cond |-> cond, step |-> step, body |-> body]
\* an else taken by the outermost of two nested ifs
IfElseOutermost(cond, body, else_body) ==
    IF body.k = "If" /\ body.else_body # NoneExpr /\ else_body = NoneExpr
    THEN [k |-> "If", cond |-> cond,
          body |-> [k |-> "If", cond |-> body.cond, body |-> body.body,
                    else_body |-> NoneExpr],
          else_body |-> body.else_body]
    ELSE [k |-> "If", cond |-> cond, body |-> body, else_body |-> else_body]
Function(name, params) == [k |-> "Function", name |-> name, params |-> params]
Group(children) == [k |-> "Group", children |-> children]
If(cond, body, else_body) == [k |-> "If", cond |-> cond, body |-> body, else_body |-> else_body]
Repeat(count, body) == [k |-> "Repeat", count |-> count, body |-> body]
Switch(input, body) == [k |-> "Switch", input |-> input, body |-> body]
Var(names) == [k |-> "Var", vars |-> names]
With(target, body) == [k |-> "With", target |-> target, body |-> body]
While(cond, body) == [k |-> "While", cond |-> cond, body |-> body]
Case(e) == [k |-> "Case", child |-> e]
Default == [k |-> "Default"]
Continue == [k |-> "Continue"]
Break == [k |-> "Break"]
Exit == [k |-> "Exit"]
Return(e) == [k |-> "Return", child |-> e]
Nop == [k |-> "Nop"]

(***************************************************************************)
(* Results.  Err(e) carries the message's kind and the line it prints;     *)
(* a panic is an unreachable!() that fired.                                *)
(***************************************************************************)
\* AST::new's `let mut line: usize = 1`, handed down as &mut and never written.
line == 1

Err(msg, p) == [ok |-> FALSE, panic |-> FALSE, err |-> msg, line |-> line, pos |-> p]
Panic(msg, p) == [ok |-> FALSE, panic |-> TRUE, err |-> msg, line |-> line, pos |-> p]
\* read_line: Ok(Some(expr)), Ok(None)
OkLine(e, p) == [ok |-> TRUE, some |-> TRUE, expr |-> e, pos |-> p]
OkEof(p) == [ok |-> TRUE, some |-> FALSE, pos |-> p]
\* read_binary_tree: Ok((expr, Option<Operator>))
OkTree(e, op, p) == [ok |-> TRUE, expr |-> e, op |-> op, pos |-> p]
\* read_btree_expression, read_function_call: Ok(expr)
OkExpr(e, p) == [ok |-> TRUE, expr |-> e, pos |-> p]
\* the loops that collect a Vec
OkList(l, p) == [ok |-> TRUE, list |-> l, pos |-> p]

(***************************************************************************)
(* Peekable<Lexer>: peek() and next() over the token stream.               *)
(***************************************************************************)
Peek(toks, p) == IF p <= Len(toks) THEN toks[p] ELSE NoneTok
\* the position after lex.next(): next() at the end yields None and stays there
Adv(toks, p) == IF p <= Len(toks) THEN p + 1 ELSE p

(***************************************************************************)
(* get_op_precedence (ast.rs 826-861): Option<u8>, None as NoPrec.         *)
(***************************************************************************)
NoPrec == -1

GetOpPrecedence(op) ==
    CASE op \in {"Add", "Subtract"} -> 4
      [] op \in {"Multiply", "Divide", "IntDivide", "Modulo"} -> 5
      [] op \in {"BinaryAnd", "BinaryOr", "BinaryXor"} -> 2
      [] op \in {"LessThan", "GreaterThan", "Equal", "NotEqual",
                 "LessThanOrEqual", "GreaterThanOrEqual"} -> 1
      [] op \in {"And", "Or", "Xor"} -> 0
      [] op \in {"BinaryShiftLeft", "BinaryShiftRight"} -> 3
      [] op \in {"Assign", "Not", "AssignAdd", "AssignSubtract", "AssignMultiply",
                 "AssignDivide", "AssignBinaryAnd", "AssignBinaryOr",
                 "AssignBinaryXor", "Complement", "Deref", "Index"} -> NoPrec

\* every operator taken as a prefix
IsUnaryOpAny(op) == TRUE

\* read_btree_expression's test of a prefix operator (ast.rs 669)
IsUnaryOp(op) == op \in {"Add", "Subtract", "Not", "Complement"}

\* the test without its first half: every assignment operator passes
RejectsUnrankedInExpression(expect_assignment, op) == op = "Not" \/ op = "Complement"

\* the test without its second half: '!' and '~' pass for assignments
RejectsUnrankedLax(expect_assignment, op) == ~expect_assignment

\* read_binary_tree's test of an operator without precedence (ast.rs 603)
RejectsUnranked(expect_assignment, op) ==
    (~expect_assignment) \/ op = "Not" \/ op = "Complement"

\* an operator at the threshold handed back as well
BelowOrAt(precedence, lowest_prec) == precedence <= lowest_prec

\* "this op has lower prec than we're allowed to read" (ast.rs 551, 563)
Below(precedence, lowest_prec) == precedence < lowest_prec

\* the threshold "precedence", which would build 1/2/3 as 1/(2/3)
RhsPrecSame(precedence) == precedence

\* the right-hand threshold of a ranked operator (ast.rs 559)
RhsPrec(precedence) == precedence + 1

\* A call of one of the four mutually recursive functions of the parser: fn names
\* the function, a holds its arguments besides lex (toks, p) and line.
RECURSIVE Call(_, _, _, _)

read_line(toks, p) == Call("read_line", toks, p, <<>>)
read_binary_tree(toks, p, first_token, expect_assignment, lowest_prec) ==
    Call("read_binary_tree", toks, p,
         [first_token |-> first_token, expect_assignment |-> expect_assignment,
          lowest_prec |-> lowest_prec])
read_btree_expression(toks, p, first_token) ==
    Call("read_btree_expression", toks, p, [first_token |-> first_token])
read_function_call(toks, p, function_name) ==
    Call("read_function_call", toks, p, [function_name |-> function_name])

\* the loops inside them
RECURSIVE VarLoop(_, _, _)
RECURSIVE GroupLoop(_, _, _)
RECURSIVE ForSemicolons(_, _)
RECURSIVE OpLoop(_, _, _, _, _, _)
RECURSIVE PostfixLoop(_, _, _)
RECURSIVE IndexLoop(_, _, _)
RECURSIVE ParamLoop(_, _, _)

(***************************************************************************)
(* read_function_call (ast.rs 780-824).  p is at the paren.                  *)
(***************************************************************************)
\* the loop without the look past a comma for the closing paren
RECURSIVE ParamLoopStrict(_, _, _)
ParamLoopStrict(toks, p, params) ==
    LET r == read_binary_tree(toks, p, NoneTok, FALSE, 0) IN
    IF ~r.ok THEN r
    ELSE IF r.op # NoOp THEN Panic("read_binary_tree returned an operator", r.pos)
    ELSE LET ps == Append(params, r.expr)
             nx == Peek(toks, r.pos)
             p1 == Adv(toks, r.pos)
         IN CASE nx = Sep("ParenRight") -> OkList(ps, p1)
              [] nx = Sep("Comma") -> ParamLoopStrict(toks, p1, ps)
              [] nx = NoneTok -> Err("Found EOF unexpectedly while reading function call", p1)
              [] OTHER -> Err("Invalid token, expected expression", p1)

ParamLoop(toks, p, params) ==
    LET r == read_binary_tree(toks, p, NoneTok, FALSE, 0) IN
    IF ~r.ok THEN r
    ELSE IF r.op # NoOp THEN Panic("read_binary_tree returned an operator", r.pos)
    ELSE LET ps == Append(params, r.expr)
             nx == Peek(toks, r.pos)
             p1 == Adv(toks, r.pos)
         IN CASE nx = Sep("ParenRight") -> OkList(ps, p1)
              [] nx = Sep("Comma") ->
                    IF Peek(toks, p1) = Sep("ParenRight")
                    THEN OkList(ps, Adv(toks, p1))
                    ELSE ParamLoop(toks, p1, ps)
              [] nx = NoneTok -> Err("Found EOF unexpectedly while reading function call", p1)
              [] OTHER -> Err("Invalid token, expected expression", p1)

ReadFunctionCall(toks, p, function_name) ==
    IF Peek(toks, p) # Sep("ParenLeft")
    THEN Err("Unexpected token or EOF; ParenLeft expected", Adv(toks, p))
    ELSE LET p1 == Adv(toks, p)
             r == IF Peek(toks, p1) = Sep("ParenRight")
                  THEN OkList(<<>>, Adv(toks, p1))
                  ELSE ParamLoop(toks, p1, <<>>)
         IN IF ~r.ok THEN r ELSE OkExpr(Function(function_name, r.list), r.pos)

(***************************************************************************)
(* read_btree_expression (ast.rs 646-778).                                 *)
(***************************************************************************)
\* the loop with every dimension put before the ones read so far
RECURSIVE IndexLoopReversed(_, _, _)
IndexLoopReversed(toks, p, dimensions) ==
    LET r == read_binary_tree(toks, p, NoneTok, FALSE, 0) IN
    IF ~r.ok THEN r
    ELSE IF r.op # NoOp THEN Panic("read_binary_tree returned an operator", r.pos)
    ELSE LET ds == <<r.expr>> \o dimensions
             nx == Peek(toks, r.pos)
             p1 == Adv(toks, r.pos)
         IN CASE nx = Sep("BracketRight") -> OkList(ds, p1)
              [] nx = Sep("Comma") ->
                    IF Peek(toks, p1) = Sep("BracketRight")
                    THEN OkList(ds, Adv(toks, p1))
                    ELSE IndexLoopReversed(toks, p1, ds)
              [] nx = NoneTok -> Err("Found EOF unexpectedly while reading array accessor", p1)
              [] OTHER -> Err("Invalid token, expected expression", p1)

\* the dimensions of an array accessor (ast.rs 715-742); p is after the bracket.
IndexLoop(toks, p, dimensions) ==
    LET r == read_binary_tree(toks, p, NoneTok, FALSE, 0) IN
    IF ~r.ok THEN r
    ELSE IF r.op # NoOp THEN Panic("read_binary_tree returned an operator", r.pos)
    ELSE LET ds == Append(dimensions, r.expr)
             nx == Peek(toks, r.pos)
             p1 == Adv(toks, r.pos)
         IN CASE nx = Sep("BracketRight") -> OkList(ds, p1)
              [] nx = Sep("Comma") ->
                    IF Peek(toks, p1) = Sep("BracketRight")
                    THEN OkList(ds, Adv(toks, p1))
                    ELSE IndexLoop(toks, p1, ds)
              [] nx = NoneTok -> Err("Found EOF unexpectedly while reading array accessor", p1)
              [] OTHER -> Err("Invalid token, expected expression", p1)

\* the node an array accessor makes of lhs and its dimensions (ast.rs 744-748)
IndexNode(lhs, dimensions) == Binary("Index", lhs, Group(dimensions))

\* the node a deref makes of lhs and the identifier after the period (ast.rs 754-758)
DerefNode(lhs, id) == Binary("Deref", lhs, LiteralIdentifier(id))

\* a number taken after the period as well
DerefTargetAny(tok) == tok.t \in {"Identifier", "Real"}

\* the token a deref needs after the period (ast.rs 754)
DerefTarget(tok) == tok.t = "Identifier"

\* "Do we need to amend this LHS at all?" (ast.rs 707-775)
PostfixLoop(toks, p, lhs) ==
    LET nx == Peek(toks, p) IN
    CASE nx = Sep("BracketLeft") ->
            LET p1 == Adv(toks, p)
                r == IF Peek(toks, p1) = Sep("BracketRight")
                     THEN OkList(<<>>, Adv(toks, p1))
                     ELSE IndexLoop(toks, p1, <<>>)
            IN IF ~r.ok THEN r
               ELSE PostfixLoop(toks, r.pos, IndexNode(lhs, r.list))
      [] nx = Sep("Period") ->
            LET p1 == Adv(toks, p)
                id == Peek(toks, p1)
                p2 == Adv(toks, p1)
            IN CASE DerefTarget(id) -> PostfixLoop(toks, p2, DerefNode(lhs, id.v))
                 [] id = NoneTok -> Err("Found EOF unexpectedly while reading binary tree", p2)
                 [] OTHER -> Err("Unexpected token following deref", p2)
      [] OTHER -> OkExpr(lhs, p)

\* the parentheses kept as a Group of their own
ParenthesisedGroup(e) == Group(<<e>>)

\* what a parenthesised expression becomes: binary_tree.0 itself (ast.rs 666)
Parenthesised(e) == e

ReadBtreeExpression(toks, p, first_token) ==
    LET tok == IF first_token # NoneTok THEN first_token ELSE Peek(toks, p)
        p1 == IF first_token # NoneTok THEN p ELSE Adv(toks, p)
        lhs ==
            CASE tok = Sep("ParenLeft") ->
                    LET bt == read_binary_tree(toks, p1, NoneTok, FALSE, 0) IN
                    IF ~bt.ok THEN bt
                    ELSE IF Peek(toks, bt.pos) # Sep("ParenRight")
                         THEN Err("Unclosed parenthesis in binary tree", Adv(toks, bt.pos))
                    ELSE IF bt.op # NoOp
                         THEN Err("Stray operator in expression", Adv(toks, bt.pos))
                    ELSE OkExpr(Parenthesised(bt.expr), Adv(toks, bt.pos))
              [] tok.t = "Operator" ->
                    IF IsUnaryOp(tok.v)
                    THEN LET c == read_btree_expression(toks, p1, NoneTok) IN
                         IF ~c.ok THEN c ELSE OkExpr(Unary(tok.v, c.expr), c.pos)
                    ELSE Err("Invalid unary operator in expression", p1)
              [] tok.t = "Identifier" ->
                    IF Peek(toks, p1) = Sep("ParenLeft")
                    THEN read_function_call(toks, p1, tok.v)
                    ELSE OkExpr(LiteralIdentifier(tok.v), p1)
              [] tok.t = "Real" -> OkExpr(LiteralReal(tok.v), p1)
              [] tok.t = "String" -> OkExpr(LiteralString(tok.v), p1)
              [] tok = NoneTok -> Err("Found EOF unexpectedly while reading binary tree", p1)
              [] OTHER -> Err("Invalid token while scanning binary tree", p1)
    IN IF ~lhs.ok THEN lhs ELSE PostfixLoop(toks, lhs.pos, lhs.expr)

(***************************************************************************)
(* read_binary_tree (ast.rs 515-644).                                      *)
(***************************************************************************)
\* "loop until there are no more buffered operators" (ast.rs 538-628);
\* op has been consumed, p is after it.
OpLoop(toks, p, lhs, op, expect_assignment, lowest_prec) ==
    LET precedence == GetOpPrecedence(op) IN
    IF precedence # NoPrec
    THEN IF expect_assignment
         THEN Err("Invalid operator found, expected assignment", p)
         ELSE IF Below(precedence, lowest_prec)
         THEN OkTree(lhs, op, p)
         ELSE LET rhs == read_binary_tree(toks, p, NoneTok, FALSE, RhsPrec(precedence)) IN
              IF ~rhs.ok THEN rhs
              ELSE IF rhs.op # NoOp
              THEN LET next_prec == GetOpPrecedence(rhs.op) IN
                   IF next_prec # NoPrec
                   THEN IF Below(next_prec, lowest_prec)
                        THEN OkTree(Binary(op, lhs, rhs.expr), rhs.op, rhs.pos)
                        ELSE OpLoop(toks, rhs.pos, Binary(op, lhs, rhs.expr), rhs.op,
                                    expect_assignment, lowest_prec)
                   ELSE Panic("unreachable", rhs.pos)
              ELSE OkTree(Binary(op, lhs, rhs.expr), NoOp, rhs.pos)
    ELSE IF RejectsUnranked(expect_assignment, op)
         THEN Err("Invalid operator found, expected evaluable", p)
         ELSE LET rhs == read_binary_tree(toks, p, NoneTok, FALSE, lowest_prec) IN
              IF ~rhs.ok THEN rhs
              ELSE IF rhs.op # NoOp
              THEN Err("Stray operator in expression", rhs.pos)
              ELSE OkTree(Binary(op, lhs, rhs.expr), NoOp, rhs.pos)

\* '=' left as it is wherever it stands
FirstOpKept(op, expect_assignment) == op

\* '=' is an assignment or an equality check (ast.rs 533-535)
FirstOp(op, expect_assignment) ==
    IF op = "Assign" /\ ~expect_assignment THEN "Equal" ELSE op

ReadBinaryTree(toks, p, first_token, expect_assignment, lowest_prec) ==
    LET l == read_btree_expression(toks, p, first_token) IN
    IF ~l.ok THEN l
    ELSE LET next_token == Peek(toks, l.pos) IN
         IF next_token.t = "Operator"
         THEN OpLoop(toks, Adv(toks, l.pos), l.expr,
                     FirstOp(next_token.v, expect_assignment),
                     expect_assignment, lowest_prec)
         ELSE IF expect_assignment
              THEN Err("Invalid token when expecting assignment operator", l.pos)
              ELSE OkTree(l.expr, NoOp, l.pos)

(***************************************************************************)
(* read_line (ast.rs 249-513).                                             *)
(***************************************************************************)
\* AST::read_binary_tree(lex, line, None, false, 0)? and the unreachable!()
\* that follows it at every call site of read_line
ReadExpression(toks, p) ==
    LET r == read_binary_tree(toks, p, NoneTok, FALSE, 0) IN
    IF ~r.ok THEN r
    ELSE IF r.op # NoOp THEN Panic("read_binary_tree returned an operator", r.pos)
    ELSE r

\* a statement missing at the end of input taken as an empty one
ReadBodyNop(toks, p, msg) ==
    LET r == read_line(toks, p) IN
    IF ~r.ok THEN r
    ELSE IF ~r.some THEN OkLine(Nop, r.pos)
    ELSE r

\* AST::read_line(lex, line)?.ok_or_else(|| Error::new(..))?
ReadBody(toks, p, msg) ==
    LET r == read_line(toks, p) IN
    IF ~r.ok THEN r
    ELSE IF ~r.some THEN Err(msg, r.pos)
    ELSE r

\* expect_token!(lex.next(), line, ..) (ast.rs 199-217): TRUE when it returns Err
ExpectFails(toks, p, tok) == Peek(toks, p) # tok

\* the loop with the comma taken only when a name follows it
RECURSIVE VarLoopStrict(_, _, _)
VarLoopStrict(toks, p, names) ==
    IF Peek(toks, p) = Sep("Comma") /\ Peek(toks, Adv(toks, p)).t = "Identifier"
    THEN VarLoopStrict(toks, Adv(toks, Adv(toks, p)),
                       Append(names, Peek(toks, Adv(toks, p)).v))
    ELSE OkLine(Var(names), p)

\* the names after the first one (ast.rs 266-281)
VarLoop(toks, p, names) ==
    IF Peek(toks, p) = Sep("Comma")
    THEN LET p1 == Adv(toks, p) IN
         IF Peek(toks, p1).t = "Identifier"
         THEN VarLoop(toks, Adv(toks, p1), Append(names, Peek(toks, p1).v))
         ELSE OkLine(Var(names), p1)
    ELSE OkLine(Var(names), p)

\* Keyword::Var (ast.rs 259-288); p is after the keyword
ReadVar(toks, p) ==
    IF Peek(toks, p).t = "Identifier"
    THEN VarLoop(toks, Adv(toks, p), <<Peek(toks, p).v>>)
    ELSE OkLine(Var(<<>>), p)

\* the brace loop with every statement kept, Nop or not
RECURSIVE GroupLoopAny(_, _, _)
GroupLoopAny(toks, p, inner_expressions) ==
    IF Peek(toks, p) = Sep("BraceRight")
    THEN OkLine(Group(inner_expressions), Adv(toks, p))
    ELSE LET r == read_line(toks, p) IN
         IF ~r.ok THEN r
         ELSE IF ~r.some THEN Err("Unclosed brace at EOF", r.pos)
         ELSE GroupLoopAny(toks, r.pos, Append(inner_expressions, r.expr))

\* Separator::BraceLeft (ast.rs 461-477); p is after the brace
GroupLoop(toks, p, inner_expressions) ==
    IF Peek(toks, p) = Sep("BraceRight")
    THEN OkLine(Group(inner_expressions), Adv(toks, p))
    ELSE LET r == read_line(toks, p) IN
         IF ~r.ok THEN r
         ELSE IF ~r.some THEN Err("Unclosed brace at EOF", r.pos)
         ELSE IF r.expr = Nop THEN GroupLoop(toks, r.pos, inner_expressions)
         ELSE GroupLoop(toks, r.pos, Append(inner_expressions, r.expr))

\* the token left where it stands
SkipNone(toks, p, tok) == p

\* if lex.peek() == Some(&tok) { lex.next(); }
SkipOptional(toks, p, tok) == IF Peek(toks, p) = tok THEN Adv(toks, p) ELSE p

\* one semicolon at most
ForSemicolonsOne(toks, p) == SkipOptional(toks, p, Sep("Semicolon"))

\* while lex.peek() == Some(&Semicolon) { lex.next(); } (ast.rs 338-340)
ForSemicolons(toks, p) ==
    IF Peek(toks, p) = Sep("Semicolon") THEN ForSemicolons(toks, Adv(toks, p)) ELSE p

\* Keyword::Do (ast.rs 290-299)
ReadDo(toks, p) ==
    LET body == ReadBody(toks, p, "Unexpected EOF after 'do' keyword") IN
    IF ~body.ok THEN body
    ELSE IF ExpectFails(toks, body.pos, Kw("Until"))
    THEN Err("Unexpected token or EOF; until expected", Adv(toks, body.pos))
    ELSE LET cond == ReadExpression(toks, Adv(toks, body.pos)) IN
         IF ~cond.ok THEN cond
         ELSE OkLine(DoUntil(cond.expr, body.expr), cond.pos)

\* Keyword::If (ast.rs 301-320)
ReadIf(toks, p) ==
    LET cond == ReadExpression(toks, p) IN
    IF ~cond.ok THEN cond
    ELSE LET p1 == SkipOptional(toks, cond.pos, Sep("Then"))
             body == ReadBody(toks, p1, "Unexpected EOF after 'do' keyword")
         IN IF ~body.ok THEN body
            ELSE IF Peek(toks, body.pos) = Kw("Else")
            THEN LET els == ReadBody(toks, Adv(toks, body.pos),
                                     "Unexpected EOF after 'do' keyword")
                 IN IF ~els.ok THEN els
                    ELSE OkLine(If(cond.expr, body.expr, els.expr), els.pos)
            ELSE OkLine(If(cond.expr, body.expr, NoneExpr), body.pos)

\* Keyword::For (ast.rs 322-350)
ReadFor(toks, p) ==
    IF ExpectFails(toks, p, Sep("ParenLeft"))
    THEN Err("Unexpected token or EOF; ParenLeft expected", Adv(toks, p))
    ELSE
    LET start == ReadBody(toks, Adv(toks, p), "Unexpected EOF during 'for' params") IN
    IF ~start.ok THEN start
    ELSE
    LET cond == ReadExpression(toks, SkipOptional(toks, start.pos, Sep("Semicolon"))) IN
    IF ~cond.ok THEN cond
    ELSE
    LET step == ReadBody(toks, SkipOptional(toks, cond.pos, Sep("Semicolon")),
                         "Unexpected EOF during 'for' params") IN
    IF ~step.ok THEN step
    ELSE
    LET p1 == ForSemicolons(toks, step.pos) IN
    IF ExpectFails(toks, p1, Sep("ParenRight"))
    THEN Err("Unexpected token or EOF; ParenRight expected", Adv(toks, p1))
    ELSE
    LET body == ReadBody(toks, Adv(toks, p1), "Unexpected EOF after 'for' params") IN
    IF ~body.ok THEN body
    ELSE OkLine(For(start.expr, cond.expr, step.expr, body.expr), body.pos)

\* Keyword::Repeat, Switch, With, While (ast.rs 352-394): an expression, then a
\* statement; node is the variant's constructor
ReadHeaded(toks, p, key) ==
    LET head == ReadExpression(toks, p) IN
    IF ~head.ok THEN head
    ELSE LET body == ReadBody(toks, head.pos,
                              IF key \in {"Repeat", "Switch"}
                              THEN "Unexpected EOF after 'repeat' condition"
                              ELSE "Unexpected EOF after 'with' condition")
         IN IF ~body.ok THEN body
            ELSE OkLine(CASE key = "Repeat" -> Repeat(head.expr, body.expr)
                          [] key = "Switch" -> Switch(head.expr, body.expr)
                          [] key = "With" -> With(head.expr, body.expr)
                          [] key = "While" -> While(head.expr, body.expr),
                        body.pos)

\* Keyword::Case (ast.rs 396-403)
ReadCase(toks, p) ==
    LET e == ReadExpression(toks, p) IN
    IF ~e.ok THEN e
    ELSE IF ExpectFails(toks, e.pos, Sep("Colon"))
    THEN Err("Unexpected token or EOF; Colon expected", Adv(toks, e.pos))
    ELSE OkLine(Case(e.expr), Adv(toks, e.pos))

\* Keyword::Default (ast.rs 405-408)
ReadDefault(toks, p) ==
    IF ExpectFails(toks, p, Sep("Colon"))
    THEN Err("Unexpected token or EOF; Colon expected", Adv(toks, p))
    ELSE OkLine(Default, Adv(toks, p))

\* Keyword::Return (ast.rs 416-422)
ReadReturn(toks, p) ==
    LET val == ReadExpression(toks, p) IN
    IF ~val.ok THEN val ELSE OkLine(Return(val.expr), val.pos)

\* the assignment read_line starts with token already taken (ast.rs 445-454,
\* 481-490); p is after token
ReadAssignment(toks, p, token) ==
    LET binary_tree == read_binary_tree(toks, p, token, TRUE, 0) IN
    IF ~binary_tree.ok THEN binary_tree
    ELSE IF binary_tree.op # NoOp
    THEN Err("Stray operator in expression", binary_tree.pos)
    ELSE OkLine(binary_tree.expr, binary_tree.pos)

\* a token that starts no statement taken as an empty one
InvalidStartSkipped(token, p) == OkLine(Nop, p)

\* the three defaults of read_line (ast.rs 424-429, 497-502, 506-511); p is
\* after token
InvalidStart(token, p) ==
    CASE token.t = "Keyword" -> Err("Invalid Keyword at beginning of expression", p)
      [] token.t = "Separator" -> Err("Invalid Separator at beginning of expression", p)
      [] OTHER -> Err("Invalid token at beginning of expression", p)

\* every identifier taken as the beginning of an assignment
CallFollowsNever(toks, p) == FALSE

\* the token after the identifier of a statement is a paren (ast.rs 441)
CallFollows(toks, p) == Peek(toks, p) = Sep("ParenLeft")

ReadLine(toks, p) ==
    LET token == Peek(toks, p)
        p1 == Adv(toks, p)
    IN
    CASE token = NoneTok -> OkEof(p1)
      [] token.t = "Keyword" ->
            CASE token.v = "Var" -> ReadVar(toks, p1)
              [] token.v = "Do" -> ReadDo(toks, p1)
              [] token.v = "If" -> ReadIf(toks, p1)
              [] token.v = "For" -> ReadFor(toks, p1)
              [] token.v \in {"Repeat", "Switch", "With", "While"} ->
                    ReadHeaded(toks, p1, token.v)
              [] token.v = "Case" -> ReadCase(toks, p1)
              [] token.v = "Default" -> ReadDefault(toks, p1)
              [] token.v = "Break" -> OkLine(Break, p1)
              [] token.v = "Continue" -> OkLine(Continue, p1)
              [] token.v = "Exit" -> OkLine(Exit, p1)
              [] token.v = "Return" -> ReadReturn(toks, p1)
              [] OTHER -> InvalidStart(token, p1)
      [] token.t = "Identifier" ->
            IF Peek(toks, p1) = NoneTok
            THEN Err("Stray identifier at EOF", p1)
            ELSE IF CallFollows(toks, p1)
            THEN LET call == read_function_call(toks, p1, token.v) IN
                 IF ~call.ok THEN call ELSE OkLine(call.expr, call.pos)
            ELSE ReadAssignment(toks, p1, token)
      [] token.t = "Separator" ->
            CASE token.v = "BraceLeft" -> GroupLoop(toks, p1, <<>>)
              [] token.v = "ParenLeft" -> ReadAssignment(toks, p1, token)
              [] token.v = "Semicolon" -> OkLine(Nop, p1)
              [] OTHER -> InvalidStart(token, p1)
      [] OTHER -> InvalidStart(token, p1)

Call(fn, toks, p, a) ==
    CASE fn = "read_line" -> ReadLine(toks, p)
      [] fn = "read_binary_tree" ->
            ReadBinaryTree(toks, p, a.first_token, a.expect_assignment, a.lowest_prec)
      [] fn = "read_btree_expression" -> ReadBtreeExpression(toks, p, a.first_token)
      [] fn = "read_function_call" -> ReadFunctionCall(toks, p, a.function_name)

(***************************************************************************)
(* Inputs: the token streams AST::new is run on.  Every finite sequence of *)
(* lexer tokens is an input; the families below are the ones checked.      *)
(* The value of a Real is carried as the name of the literal.              *)
(***************************************************************************)
\* The operators the lexer yields: per the token model, Deref and Index are
\* made by the parser only.
RankedOps ==
    {"And", "Or", "Xor",
     "LessThan", "GreaterThan", "Equal", "NotEqual", "LessThanOrEqual", "GreaterThanOrEqual",
     "BinaryAnd", "BinaryOr", "BinaryXor",
     "BinaryShiftLeft", "BinaryShiftRight",
     "Add", "Subtract",
     "Multiply", "Divide", "IntDivide", "Modulo"}
AssignOps ==
    {"Assign", "AssignAdd", "AssignSubtract", "AssignMultiply", "AssignDivide",
     "AssignBinaryAnd", "AssignBinaryOr", "AssignBinaryXor"}
LexerOps == RankedOps \cup AssignOps \cup {"Not", "Complement"}

\* bounds of the families
MaxFree == 4      \* length of a free token sequence
MaxDims == 3      \* expressions between [ and ], or ( and ) of a call
MaxSemis == 2     \* repeated semicolons
MaxVarLen == 5    \* length of an input of var declarations
MaxArgLen == 4    \* tokens between the parentheses of a call
MaxTreeLen == 4   \* tokens of an expression handed to read_binary_tree
MaxPrefix == 3    \* prefix operators before an atom
MaxEmptyLen == 3  \* length of a free token sequence that may come to nothing
MaxTermLen == 2   \* length of a free token sequence a parser function is entered on

IdA == Ident("a")
IdB == Ident("b")
IdC == Ident("c")
IdF == Ident("f")
One == RealTok("1")
Str == StringTok("s")
Semi == Sep("Semicolon")

Cat(S, T) == {s \o t : s \in S, t \in T}
Cat3(S, T, U) == Cat(Cat(S, T), U)
Tok(t) == {<<t>>}
Toks(T) == {<<t>> : t \in T}
Ops(O) == {<<Op(o)>> : o \in O}
Opt(S) == S \cup {<<>>}
\* all sequences over A of length 0..n
Seqs(A, n) == UNION {[1..m -> A] : m \in 0..n}
\* 1..n members of E separated by sep
RECURSIVE Lists(_, _, _)
Lists(E, sep, n) ==
    IF n <= 1 THEN (IF n = 1 THEN E ELSE {})
    ELSE E \cup Cat3(E, Tok(sep), Lists(E, sep, n - 1))
\* what stands between brackets or a call's parentheses: nothing, or 1..MaxDims
\* expressions of E with or without a trailing comma
Args(E) ==
    {<<>>} \cup Cat(Lists(E, Sep("Comma"), MaxDims), Opt(Tok(Sep("Comma"))))

\* the expressions one production away from those of E, the other operands
\* taken from A; some of the productions are not valid expressions
Grow(E, A) ==
    UNION {
        Cat(Ops({"Subtract", "Not", "Multiply"}), E),
        Cat3(A, Ops({"Assign", "Add", "Multiply", "LessThan", "AssignAdd", "Not"}), E),
        Cat3(E, Ops({"Assign", "Add", "Multiply"}), A),
        Cat3(Tok(Sep("ParenLeft")), E, Tok(Sep("ParenRight"))),
        Cat3(E, Tok(Sep("Period")), {<<IdB>>, <<One>>, <<>>}),
        Cat3(Cat(E, Tok(Sep("BracketLeft"))), Args(A), Tok(Sep("BracketRight"))),
        Cat3(Cat(A, Tok(Sep("BracketLeft"))), E, Tok(Sep("BracketRight"))),
        Cat3(Cat(Tok(IdF), Tok(Sep("ParenLeft"))), Args(A), Tok(Sep("ParenRight"))),
        Cat3(Cat(Tok(IdF), Tok(Sep("ParenLeft"))), E, Tok(Sep("ParenRight")))
    }

Atoms == {<<IdA>>, <<One>>}
Expr1 == Atoms \cup Grow(Atoms, Atoms)
Expr2 == Expr1 \cup Grow(Expr1, {<<IdA>>})

\* the statement forms of read_line, each around an expression e
Forms ==
    {"assign", "compound", "lhs", "if", "ifelse", "ifnop", "while", "repeat", "switch",
     "with", "do", "case", "return", "for", "group", "nested", "call"}

StmtForm(form, e) ==
    CASE form = "assign" -> <<IdC, Op("Assign")>> \o e
      [] form = "compound" -> <<IdC, Op("AssignAdd")>> \o e
      [] form = "lhs" -> e \o <<Op("Assign"), One>>
      [] form = "if" -> <<Kw("If")>> \o e \o <<Semi>>
      [] form = "ifelse" -> <<Kw("If")>> \o e \o <<Sep("Then"), Kw("Exit"), Kw("Else"), Semi>>
      [] form = "ifnop" -> <<Kw("If")>> \o e \o <<Semi, Kw("Else"), Kw("Break")>>
      [] form = "while" -> <<Kw("While")>> \o e \o <<Semi>>
      [] form = "repeat" -> <<Kw("Repeat")>> \o e \o <<Kw("Continue")>>
      [] form = "switch" -> <<Kw("Switch")>> \o e \o <<Semi>>
      [] form = "with" -> <<Kw("With")>> \o e \o <<Semi>>
      [] form = "do" -> <<Kw("Do"), Semi, Kw("Until")>> \o e
      [] form = "case" -> <<Kw("Case")>> \o e \o <<Sep("Colon")>>
      [] form = "return" -> <<Kw("Return")>> \o e
      [] form = "for" -> <<Kw("For"), Sep("ParenLeft"), Semi>> \o e
                         \o <<Semi, Semi, Sep("ParenRight"), Semi>>
      [] form = "group" -> <<Sep("BraceLeft"), Semi, IdC, Op("Assign")>> \o e
                           \o <<Semi, Sep("BraceRight")>>
      [] form = "nested" -> <<Sep("BraceLeft"), Sep("BraceLeft"), Semi, Sep("BraceRight"),
                              Kw("Return")>> \o e
                            \o <<Semi, Kw("Default"), Sep("Colon"), Sep("BraceRight")>>
      [] form = "call" -> <<IdF, Sep("ParenLeft")>> \o e \o <<Sep("ParenRight")>>

\* statements without a variable part
PlainStmts ==
    {<<Kw("Var")>>, <<Kw("Var"), IdA>>, <<Kw("Var"), IdA, Sep("Comma"), IdB>>,
     <<Kw("Break")>>, <<Kw("Default"), Sep("Colon")>>, <<Sep("BraceLeft"), Sep("BraceRight")>>,
     <<Sep("BraceLeft"), Semi, Sep("BraceRight")>>, <<IdF, Sep("ParenLeft"), Sep("ParenRight")>>,
     <<Kw("Else")>>, <<Kw("Until")>>, <<Sep("Then")>>, <<Str>>}

SmallStmts == PlainStmts \cup {StmtForm(f, e) : f \in Forms, e \in Atoms}

\* n semicolons
Semis(n) == [i \in 1..n |-> Semi]

CoreAlphabet ==
    {IdA, One, Op("Assign"), Op("Add"), Op("Not"), Op("Multiply"),
     Sep("ParenLeft"), Sep("ParenRight"), Sep("BracketLeft"), Sep("BracketRight"),
     Sep("Comma"), Sep("Period"), Semi, Sep("BraceLeft"), Sep("BraceRight"), Kw("Var")}

(***************************************************************************)
(* AST::new (ast.rs 227-247): one action per way an iteration of its loop  *)
(* ends.                                                                   *)
(***************************************************************************)
NoRet == [ok |-> FALSE, returned |-> FALSE]
\* Ok(AST { expressions })
OkAst(exprs) == [ok |-> TRUE, returned |-> TRUE, expressions |-> exprs]
\* Err(e)
ErrAst(r) == [ok |-> FALSE, returned |-> TRUE, err |-> r.err, line |-> r.line]

\* every statement kept, Nop or not
PushAny(exprs, expr) == Append(exprs, expr)

\* AST::empty() (ast.rs 221-225)
empty == [expressions |-> <<>>]

\* "Filter top-level NOPs" (ast.rs 237-239)
PushTopLevel(exprs, expr) == IF expr # Nop THEN Append(exprs, expr) ELSE exprs

\* no read_line call has returned yet
NoRes == [ok |-> FALSE, panic |-> FALSE, err |-> "", line |-> line, pos |-> 0]

\* AST::new(source) is entered: lex is at the first token of source
Start(toks) ==
    /\ tokens = toks
    /\ pos = 1
    /\ expressions = <<>>
    /\ pc = "read_line"
    /\ res = NoRes
    /\ ret = NoRet
    /\ out = <<>>

\* short free token sequences, every operator after a left-hand side and before
\* an operand, one statement of every form around an expression, and pairs of
\* statements with semicolons between them
Init ==
    \/ \E m \in 0..MaxFree : \E s \in [1..m -> CoreAlphabet] : Start(s)
    \/ \E o1 \in LexerOps, o2 \in LexerOps : Start(<<IdA, Op(o1), Op(o2), One>>)
    \/ \E f \in Forms, e \in Expr2 : Start(StmtForm(f, e))
    \/ \E s \in SmallStmts, t \in SmallStmts, n \in 0..MaxSemis : Start(s \o Semis(n) \o t)

\* match AST::read_line(&mut lex, &mut line): the call
\* read_line given a copy of the lexer: lex stays where it was
CallReadLineByValue ==
    /\ pc = "read_line"
    /\ res' = read_line(tokens, pos)
    /\ pos' = pos
    /\ pc' = "match"
    /\ UNCHANGED <<tokens, expressions, ret, out>>

CallReadLine ==
    /\ pc = "read_line"
    /\ res' = read_line(tokens, pos)
    /\ pos' = res'.pos
    /\ pc' = "match"
    /\ UNCHANGED <<tokens, expressions, ret, out>>

\* Ok(Some(expr)): the statement is kept unless it is a Nop, and the loop goes on
MatchSome ==
    /\ pc = "match"
    /\ res.ok /\ res.some
    /\ expressions' = PushTopLevel(expressions, res.expr)
    /\ pc' = "read_line"
    /\ UNCHANGED <<tokens, pos, res, ret, out>>

\* Ok(None) => break, and after the loop Ok(AST { expressions })
MatchNone ==
    /\ pc = "match"
    /\ res.ok /\ ~res.some
    /\ ret' = OkAst(expressions)
    /\ pc' = "done"
    /\ UNCHANGED <<tokens, pos, expressions, res, out>>

\* an error that returns the statements read so far
MatchErrPartial ==
    /\ pc = "match"
    /\ ~res.ok
    /\ ret' = OkAst(expressions)
    /\ pc' = "done"
    /\ UNCHANGED <<tokens, pos, expressions, res, out>>

\* Err(e) => return Err(e): expressions is dropped; an unreachable!() that fired
\* inside read_line unwinds out of AST::new instead
MatchErr ==
    /\ pc = "match"
    /\ ~res.ok
    /\ ret' = IF res.panic THEN NoRet ELSE ErrAst(res)
    /\ pc' = IF res.panic THEN "panic" ELSE "done"
    /\ expressions' = <<>>
    /\ UNCHANGED <<tokens, pos, res, out>>

Next == CallReadLine \/ MatchSome \/ MatchNone \/ MatchErr

Spec == Init /\ [][Next]_vars

\* AST::new as a function of the token stream: the loop run to its end
RECURSIVE NewLoop(_, _, _)
NewLoop(toks, p, exprs) ==
    LET r == read_line(toks, p) IN
    IF ~r.ok THEN (IF r.panic THEN r ELSE ErrAst(r))
    ELSE IF ~r.some THEN OkAst(exprs)
    ELSE NewLoop(toks, r.pos, PushTopLevel(exprs, r.expr))

New(toks) == NewLoop(toks, 1, <<>>)

(***************************************************************************)
(* Reading an AST.                                                         *)
(***************************************************************************)
RECURSIVE Flatten(_)
Flatten(ss) == IF ss = <<>> THEN <<>> ELSE Head(ss) \o Flatten(Tail(ss))

\* the sub-expressions a node holds, in the order of its fields
Children(e) ==
    CASE e.k = "Unary" -> <<e.child>>
      [] e.k = "Binary" -> <<e.left, e.right>>
      [] e.k = "DoUntil" -> <<e.cond, e.body>>
      [] e.k = "For" -> <<e.start, e.cond, e.step, e.body>>
      [] e.k = "Function" -> e.params
      [] e.k = "Group" -> e.children
      [] e.k = "If" -> IF e.else_body = NoneExpr THEN <<e.cond, e.body>>
                       ELSE <<e.cond, e.body, e.else_body>>
      [] e.k = "Repeat" -> <<e.count, e.body>>
      [] e.k = "Switch" -> <<e.input, e.body>>
      [] e.k = "With" -> <<e.target, e.body>>
      [] e.k = "While" -> <<e.cond, e.body>>
      [] e.k \in {"Case", "Return"} -> <<e.child>>
      [] OTHER -> <<>>

\* the sub-expressions a node holds where read_line put a statement
StmtChildren(e) ==
    CASE e.k = "DoUntil" -> <<e.body>>
      [] e.k = "For" -> <<e.start, e.step, e.body>>
      [] e.k = "Group" -> e.children
      [] e.k = "If" -> IF e.else_body = NoneExpr THEN <<e.body>> ELSE <<e.body, e.else_body>>
      [] e.k \in {"Repeat", "Switch", "With", "While"} -> <<e.body>>
      [] OTHER -> <<>>

\* every node of e, e first
RECURSIVE Nodes(_)
Nodes(e) == <<e>> \o Flatten([i \in 1..Len(Children(e)) |-> Nodes(Children(e)[i])])

\* the nodes of e that are statements: e and the statements inside it
RECURSIVE StmtNodes(_)
StmtNodes(e) == <<e>> \o Flatten([i \in 1..Len(StmtChildren(e)) |-> StmtNodes(StmtChildren(e)[i])])

AstNodes(exprs) == Flatten([i \in 1..Len(exprs) |-> Nodes(exprs[i])])
AstStmts(exprs) == Flatten([i \in 1..Len(exprs) |-> StmtNodes(exprs[i])])

IsBinary(e, op) == e.k = "Binary" /\ e.op = op
CountBinary(nodes, op) == Cardinality({i \in 1..Len(nodes) : IsBinary(nodes[i], op)})
CountTok(toks, tok) == Cardinality({i \in 1..Len(toks) : toks[i] = tok})

Returned == pc = "done"
ReturnedOk == pc = "done" /\ ret.ok
ReturnedErr == pc = "done" /\ ~ret.ok

(***************************************************************************)
(* Precedence and associativity: x = a op1 b op2 c.                        *)
(***************************************************************************)
PrecAtoms == {<<a, b, c>> : a \in {IdA, One}, b \in {IdB, Str}, c \in {IdC, One}}

PrecInput(abc, op1, op2) ==
    <<Ident("x"), Op("Assign"), abc[1], Op(op1), abc[2], Op(op2), abc[3]>>

InitPrec == \E abc \in PrecAtoms, op1 \in LexerOps, op2 \in LexerOps :
                Start(PrecInput(abc, op1, op2))

SpecPrec == InitPrec /\ [][Next]_vars

\* the node of an atom token
AtomExpr(tok) ==
    CASE tok.t = "Identifier" -> LiteralIdentifier(tok.v)
      [] tok.t = "Real" -> LiteralReal(tok.v)
      [] tok.t = "String" -> LiteralString(tok.v)

\* the ranks as the precedence table states them
Rank(op) ==
    CASE op \in {"And", "Or", "Xor"} -> 0
      [] op \in {"LessThan", "GreaterThan", "Equal", "NotEqual",
                 "LessThanOrEqual", "GreaterThanOrEqual"} -> 1
      [] op \in {"BinaryAnd", "BinaryOr", "BinaryXor"} -> 2
      [] op \in {"BinaryShiftLeft", "BinaryShiftRight"} -> 3
      [] op \in {"Add", "Subtract"} -> 4
      [] op \in {"Multiply", "Divide", "IntDivide", "Modulo"} -> 5

PrecTree(a, op1, b, op2, c) ==
    IF Rank(op2) > Rank(op1)
    THEN Binary(op1, a, Binary(op2, b, c))
    ELSE Binary(op2, Binary(op1, a, b), c)

\* C1: for ranked operators op1 and op2, x = a op1 b op2 c is parsed with the
\* right-hand side (a op1 (b op2 c)) if and only if op2 ranks above op1, and
\* ((a op1 b) op2 c) otherwise: equal ranks associate to the left.
C1_Precedence ==
    (Returned /\ tokens[4].v \in RankedOps /\ tokens[6].v \in RankedOps)
        => ret = OkAst(<<Binary("Assign", LiteralIdentifier("x"),
                                PrecTree(AtomExpr(tokens[3]), tokens[4].v,
                                         AtomExpr(tokens[5]), tokens[6].v,
                                         AtomExpr(tokens[7])))>>)

\* a - b + c has been parsed: equal ranks, the left operator is the inner node
C1_Witness ==
    /\ ReturnedOk
    /\ tokens[4] = Op("Subtract") /\ tokens[6] = Op("Add")
    /\ ret.expressions[1].right.op = "Add"
    /\ ret.expressions[1].right.left.op = "Subtract"

(***************************************************************************)
(* '=' as assignment and as equality.                                      *)
(***************************************************************************)
\* where the '=' tokens of toks stand
AssignToks(toks) == {i \in 1..Len(toks) : toks[i] = Op("Assign")}

\* toks with '==' written in place of the '=' at i
WithEqualAt(toks, i) == [toks EXCEPT ![i] = Op("Equal")]

\* the '=' tokens of toks that cannot be written '==': with '==' there, the
\* input is rejected
TopAssigns(toks) == {i \in AssignToks(toks) : ~New(WithEqualAt(toks, i)).ok}

\* C2: an '=' token is an Assign only as the operator of an assignment
\* statement, and an Equal everywhere else.  Writing '==' in place of an '='
\* gives either the same result (that '=' is an equality check) or, for the '='
\* that follows the left-hand side of a statement, a rejected input; in a
\* returned AST the Assign nodes are statements, one for each '=' of the second
\* kind, none of them inside an expression, and every other '=' is an Equal node.
C2_AssignOrEqual ==
    /\ Returned =>
         \A i \in AssignToks(tokens) :
             LET alt == New(WithEqualAt(tokens, i)) IN alt.ok => ret = alt
    /\ ReturnedOk =>
         LET nodes == AstNodes(ret.expressions)
             stmts == AstStmts(ret.expressions)
             top == TopAssigns(tokens)
         IN /\ CountBinary(nodes, "Assign") = CountBinary(stmts, "Assign")
            /\ CountBinary(stmts, "Assign") = Cardinality(top)
            /\ CountBinary(nodes, "Equal") =
                   Cardinality(AssignToks(tokens) \ top) + CountTok(tokens, Op("Equal"))

\* c = a[a = a] has been parsed: the second '=' is an Equal inside the brackets
C2_Witness ==
    /\ ReturnedOk
    /\ tokens = <<IdC, Op("Assign"), IdA, Sep("BracketLeft"), IdA, Op("Assign"), IdA,
                  Sep("BracketRight")>>
    /\ ret.expressions =
           <<Binary("Assign", LiteralIdentifier("c"),
                    Binary("Index", LiteralIdentifier("a"),
                           Group(<<Binary("Equal", LiteralIdentifier("a"),
                                          LiteralIdentifier("a"))>>)))>>

(***************************************************************************)
(* Statements that start with an identifier or a parenthesis.              *)
(***************************************************************************)
\* a statement that starts at p is led by an identifier no paren follows, or by
\* a paren
LedByLhs(toks, p) ==
    \/ Peek(toks, p).t = "Identifier" /\ Peek(toks, p + 1) # Sep("ParenLeft")
    \/ Peek(toks, p) = Sep("ParenLeft")

\* C3: a statement led by an identifier (no paren after it) or by a paren is
\* accepted only if its left-hand side, the primary and its postfix chain, is
\* read and the token after it is one of the eight assignment operators; if
\* the input starts with such a statement and that token is anything else, or
\* the input ends there, AST::new returns Err.
C3_AssignmentExpected ==
    Returned =>
        \A p \in 1..Len(tokens) :
            LedByLhs(tokens, p) =>
                LET lhs == read_btree_expression(tokens, p + 1, tokens[p])
                    after == IF lhs.ok THEN Peek(tokens, lhs.pos) ELSE NoneTok
                    assigns == after.t = "Operator" /\ after.v \in AssignOps
                IN /\ read_line(tokens, p).ok => assigns
                   /\ (p = 1 /\ ~assigns) => ~ret.ok

\* a ! 1 has been rejected
C3_Witness ==
    /\ ReturnedErr
    /\ tokens = <<IdA, Op("Not"), Op("Subtract"), One>>
    /\ ret.err = "Invalid operator found, expected evaluable"

(***************************************************************************)
(* The result of AST::new.                                                 *)
(***************************************************************************)
\* C4: AST::new returns Ok with every statement of the input, the whole input
\* read, or Err with no statement at all; a failed read_line is the last one
\* called, the lexer stays where the failure left it, and nothing happens after
\* the return.
C4_OkOrErr ==
    /\ pc = "read_line" => (res = NoRes \/ res.ok)
    /\ Returned =>
         /\ ret.returned
         /\ ~ENABLED Next
         /\ ret.ok => /\ pos > Len(tokens)
                      /\ ret.expressions = expressions
                      /\ ret = New(tokens)
         /\ ~ret.ok => /\ ~res.ok
                       /\ ret = ErrAst(res)
                       /\ pos = res.pos
                       /\ "expressions" \notin DOMAIN ret

\* var , a ; has been rejected at the comma: the Var read before it is not
\* returned, and a ; is not read
C4_Witness ==
    /\ ReturnedErr
    /\ tokens = <<Kw("Var"), Sep("Comma"), IdA, Semi>>
    /\ pos = 3
    /\ ret.err = "Invalid Separator at beginning of expression"

(***************************************************************************)
(* Nop.                                                                    *)
(***************************************************************************)
\* C5: no statement of the returned list is a Nop, and no member of a Group,
\* at any depth, is a Nop.
C5_NoNop ==
    ReturnedOk =>
        LET nodes == AstNodes(ret.expressions) IN
        /\ \A i \in 1..Len(ret.expressions) : ret.expressions[i] # Nop
        /\ \A i \in 1..Len(nodes) :
               nodes[i].k = "Group" =>
                   \A j \in 1..Len(nodes[i].children) : nodes[i].children[j] # Nop

\* { ; c = a ; } ; ; break has been parsed: the semicolons in the block and
\* after it left no Nop
C5_Witness ==
    /\ ReturnedOk
    /\ tokens = StmtForm("group", <<IdA>>) \o Semis(2) \o <<Kw("Break")>>
    /\ ret.expressions =
           <<Group(<<Binary("Assign", LiteralIdentifier("c"), LiteralIdentifier("a"))>>),
             Break>>

(***************************************************************************)
(* Index and Deref.                                                        *)
(***************************************************************************)
IndexNodes(exprs) ==
    LET nodes == AstNodes(exprs) IN
    {i \in 1..Len(nodes) : IsBinary(nodes[i], "Index")}

\* C6: the right child of every Index node of a returned AST is a Group of
\* exactly one or exactly two expressions.
C6_IndexOneOrTwo ==
    ReturnedOk =>
        LET nodes == AstNodes(ret.expressions) IN
        \A i \in 1..Len(nodes) :
            IsBinary(nodes[i], "Index") =>
                /\ nodes[i].right.k = "Group"
                /\ Len(nodes[i].right.children) \in {1, 2}

\* c = a[a, 1, a] has been parsed into an Index with a Group of three
C6_ThreeDimensions ==
    /\ ReturnedOk
    /\ tokens = <<IdC, Op("Assign"), IdA, Sep("BracketLeft"), IdA, Sep("Comma"), One,
                  Sep("Comma"), IdA, Sep("BracketRight")>>
    /\ ret.expressions =
           <<Binary("Assign", LiteralIdentifier("c"),
                    Binary("Index", LiteralIdentifier("a"),
                           Group(<<LiteralIdentifier("a"), LiteralReal("1"),
                                   LiteralIdentifier("a")>>)))>>

\* where the periods of toks stand
PeriodToks(toks) == {i \in 1..Len(toks) : toks[i] = Sep("Period")}

\* C7: the right child of every Deref node of a returned AST is a
\* LiteralIdentifier, one Deref for each period of the input; an input with a
\* period that no identifier follows is rejected.
C7_DerefIdentifier ==
    /\ ReturnedOk =>
         LET nodes == AstNodes(ret.expressions) IN
         /\ \A i \in 1..Len(nodes) :
                IsBinary(nodes[i], "Deref") => nodes[i].right.k = "LiteralIdentifier"
         /\ CountBinary(nodes, "Deref") = Cardinality(PeriodToks(tokens))
    /\ Returned =>
         ((\E i \in PeriodToks(tokens) : Peek(tokens, i + 1).t # "Identifier") => ~ret.ok)

\* c = a.1 has been rejected
C7_Witness ==
    /\ ReturnedErr
    /\ tokens = <<IdC, Op("Assign"), IdA, Sep("Period"), One>>
    /\ ret.err = "Unexpected token following deref"

(***************************************************************************)
(* Prefix operators.                                                       *)
(***************************************************************************)
\* the operator tokens of toks that stand where an operand is expected: at
\* the start, or after a token that does not end an operand
PrefixToks(toks) ==
    {i \in 1..Len(toks) :
        /\ toks[i].t = "Operator"
        /\ \/ i = 1
           \/ /\ toks[i - 1].t \notin {"Identifier", "Real", "String"}
              /\ toks[i - 1] \notin {Sep("ParenRight"), Sep("BracketRight")}}

\* C8: the operator of every Unary node of a returned AST is Add, Subtract,
\* Not or Complement, one Unary for each operator token that stands where an
\* operand is expected; an input with another operator there is rejected.
C8_UnaryOperators ==
    /\ ReturnedOk =>
         LET nodes == AstNodes(ret.expressions) IN
         /\ \A i \in 1..Len(nodes) :
                nodes[i].k = "Unary" =>
                    nodes[i].op \in {"Add", "Subtract", "Not", "Complement"}
         /\ Cardinality({i \in 1..Len(nodes) : nodes[i].k = "Unary"}) =
                Cardinality(PrefixToks(tokens))
    /\ Returned =>
         ((\E i \in PrefixToks(tokens) :
               tokens[i].v \notin {"Add", "Subtract", "Not", "Complement"}) => ~ret.ok)

\* a = * 1 has been rejected
C8_Witness ==
    /\ ReturnedErr
    /\ tokens = <<IdA, Op("Assign"), Op("Multiply"), One>>
    /\ ret.err = "Invalid unary operator in expression"

(***************************************************************************)
(* var declarations: inputs of var, names, commas and semicolons.          *)
(***************************************************************************)
VarAlphabet == {Kw("Var"), IdA, IdB, Sep("Comma"), Semi}

InitVar == \E m \in 0..MaxVarLen : \E s \in [1..m -> VarAlphabet] : Start(s)

SpecVar == InitVar /\ [][Next]_vars

\* the k tokens at p+1, p+3, .. are identifiers with commas between them
NamesFollow(toks, p, k) ==
    \A j \in 1..k :
        /\ Peek(toks, p + 2 * j - 1).t = "Identifier"
        /\ j > 1 => Peek(toks, p + 2 * j - 2) = Sep("Comma")

\* how many comma-separated identifiers follow the var at p
NameCount(toks, p) ==
    CHOOSE k \in 0..Len(toks) : NamesFollow(toks, p, k) /\ ~NamesFollow(toks, p, k + 1)

\* the values of the identifier tokens of toks, in order
IdentsOf(toks) ==
    LET ids == SelectSeq(toks, LAMBDA t : t.t = "Identifier") IN
    [i \in 1..Len(ids) |-> ids[i].v]

\* where the statement of the var at p ends: after the keyword when no name
\* follows, else after the last name and the one comma that may follow it
VarEnd(toks, p) ==
    LET k == NameCount(toks, p) IN
    IF k = 0 THEN p + 1
    ELSE IF Peek(toks, p + 2 * k) = Sep("Comma") THEN p + 2 * k + 1 ELSE p + 2 * k

\* C9: var followed by k >= 0 comma-separated identifiers yields Var with those
\* k names in order and ends there, a comma directly after the last name
\* included; the token it stops at starts the next statement, so a comma there
\* makes AST::new fail, and an accepted input of declarations yields one Var for
\* each var keyword, holding between them every identifier of the input in order.
C9_Var ==
    /\ Returned =>
         \A p \in 1..Len(tokens) :
             tokens[p] = Kw("Var") =>
                 LET k == NameCount(tokens, p) IN
                 read_line(tokens, p) =
                     OkLine(Var([j \in 1..k |-> tokens[p + 2 * j - 1].v]), VarEnd(tokens, p))
    /\ (Returned /\ Peek(tokens, 1) = Kw("Var")
                 /\ Peek(tokens, VarEnd(tokens, 1)) = Sep("Comma")) =>
           (~ret.ok /\ ret.err = "Invalid Separator at beginning of expression")
    /\ ReturnedOk =>
         /\ \A i \in 1..Len(ret.expressions) : ret.expressions[i].k = "Var"
         /\ Len(ret.expressions) = CountTok(tokens, Kw("Var"))
         /\ Flatten([i \in 1..Len(ret.expressions) |-> ret.expressions[i].vars]) =
                IdentsOf(tokens)

\* var a , var has been parsed: the comma after a is taken, the second var
\* starts the next statement
C9_Witness ==
    /\ ReturnedOk
    /\ tokens = <<Kw("Var"), IdA, Sep("Comma"), Kw("Var")>>
    /\ ret.expressions = <<Var(<<"a">>), Var(<<>>)>>

(***************************************************************************)
(* for headers: for ( start [;] cond [;] step ;* ) body.                   *)
(***************************************************************************)
IdI == Ident("i")

ForStarts ==
    {<<IdI, Op("Assign"), RealTok("0")>>, <<IdI, Op("Assign"), IdA>>, <<Kw("Var")>>,
     <<Kw("Var"), IdI>>, <<Semi>>, <<IdF, Sep("ParenLeft"), Sep("ParenRight")>>}
ForConds ==
    {<<IdI, Op("LessThan"), RealTok("10")>>, <<One>>, <<Str>>, <<IdA>>,
     <<Op("Subtract"), IdI>>, <<Sep("ParenLeft"), IdI, Sep("ParenRight")>>}
ForSteps ==
    {<<IdI, Op("AssignAdd"), One>>, <<Sep("ParenLeft"), IdI, Sep("ParenRight"), Op("Assign"), One>>,
     <<Semi>>, <<Sep("BraceLeft"), Sep("BraceRight")>>, <<Kw("Break")>>}
ForBodies == {<<Semi>>, <<Kw("Exit")>>, <<IdC, Op("Assign"), RealTok("3")>>}

\* the header written with s1 semicolons after the start, s2 after the
\* condition and n after the step
ForInput(S, s1, C, s2, T, n, B) ==
    <<Kw("For"), Sep("ParenLeft")>> \o S \o Semis(s1) \o C \o Semis(s2) \o T \o Semis(n)
        \o <<Sep("ParenRight")>> \o B

InitFor ==
    \E S \in ForStarts, C \in ForConds, T \in ForSteps, B \in ForBodies,
       s1 \in 0..1, s2 \in 0..1, n \in 0..MaxSemis :
        Start(ForInput(S, s1, C, s2, T, n, B))

SpecFor == InitFor /\ [][Next]_vars

StartsWith(toks, x) == Len(x) <= Len(toks) /\ SubSeq(toks, 1, Len(x)) = x
After(toks, x) == SubSeq(toks, Len(x) + 1, Len(toks))

\* P holds of every way toks is written as a for header over the parts above
ForEveryReading(toks, P(_, _, _, _, _, _, _)) ==
    LET t0 == After(toks, <<Kw("For"), Sep("ParenLeft")>>) IN
    \A S \in ForStarts, s1 \in 0..1 :
        StartsWith(t0, S \o Semis(s1)) =>
            LET t1 == After(t0, S \o Semis(s1)) IN
            \A C \in ForConds, s2 \in 0..1 :
                StartsWith(t1, C \o Semis(s2)) =>
                    LET t2 == After(t1, C \o Semis(s2)) IN
                    \A T \in ForSteps, n \in 0..MaxSemis, B \in ForBodies :
                        t2 = T \o Semis(n) \o <<Sep("ParenRight")>> \o B =>
                            P(S, s1, C, s2, T, n, B)

\* the statement and the expression a part is on its own
StmtOf(X) == read_line(X, 1).expr
ExprOf(X) == ReadExpression(X, 1).expr

\* the For node of the four parts
ForOf(S, C, T, B) == For(StmtOf(S), ExprOf(C), StmtOf(T), StmtOf(B))

\* the semicolon after the start cannot be missed when the condition begins
\* with an operator or a paren, or with an identifier after a var declaration
FirstOptional(S, C) ==
    \/ C[1].t \in {"Real", "String"}
    \/ C[1].t = "Identifier" /\ S[1] # Kw("Var")

\* the semicolon after the condition cannot be missed when the step begins
\* with a paren or is the empty statement
SecondOptional(T) == T[1].t \in {"Identifier", "Keyword"} \/ T[1] = Sep("BraceLeft")

InitSemi ==
    \E s \in SmallStmts, t \in SmallStmts, n \in 0..MaxSemis, m \in 0..1, braces \in BOOLEAN :
        Start(IF braces
              THEN <<Sep("BraceLeft")>> \o s \o Semis(n) \o t \o Semis(m) \o <<Sep("BraceRight")>>
              ELSE s \o Semis(n) \o t \o Semis(m))

SpecSemi == InitSemi /\ [][Next]_vars

\* the positions at which a loop over read_line calls it, from p on: AST::new's
\* loop (ast.rs 232-244) and, up to the closing brace, the loop of a block
\* (ast.rs 463-476)
RECURSIVE StatementStops(_, _, _)
StatementStops(toks, p, in_block) ==
    IF in_block /\ Peek(toks, p) = Sep("BraceRight") THEN {p}
    ELSE LET r == read_line(toks, p) IN
         IF r.ok /\ r.some THEN {p} \cup StatementStops(toks, r.pos, in_block) ELSE {p}

\* where a statement of the top level or of a block starts or the list ends
Boundaries(toks) ==
    StatementStops(toks, 1, FALSE)
        \cup UNION {StatementStops(toks, g + 1, TRUE) :
                        g \in {i \in 1..Len(toks) : toks[i] = Sep("BraceLeft")}}

InsertAt(toks, p, tok) == SubSeq(toks, 1, p - 1) \o <<tok>> \o SubSeq(toks, p, Len(toks))
RemoveAt(toks, p) == SubSeq(toks, 1, p - 1) \o SubSeq(toks, p + 1, Len(toks))

\* C11 as stated: in an accepted input, a semicolon put between two statements
\* of the top level or of a block, and any semicolon that stands there taken
\* away, leaves the AST as it is.
C11_AnySemicolon ==
    ReturnedOk =>
        \A p \in Boundaries(tokens) :
            /\ New(InsertAt(tokens, p, Semi)) = ret
            /\ Peek(tokens, p) = Semi => New(RemoveAt(tokens, p)) = ret

\* C11: in an accepted input, a semicolon put where a statement of the top
\* level or of a block starts, or where the list ends, leaves the AST as it
\* is, and so does taking away a semicolon that stands there next to another
\* semicolon.
C11_ExtraSemicolons ==
    ReturnedOk =>
        \A p \in Boundaries(tokens) :
            /\ New(InsertAt(tokens, p, Semi)) = ret
            /\ (Peek(tokens, p) = Semi
                    /\ (Peek(tokens, p + 1) = Semi \/ (p > 1 /\ tokens[p - 1] = Semi)))
                   => New(RemoveAt(tokens, p)) = ret

\* { c = a ; ; break } has been parsed, a block of two statements with two
\* semicolons between them
C11_Witness ==
    /\ ReturnedOk
    /\ tokens = <<Sep("BraceLeft"), IdC, Op("Assign"), IdA, Semi, Semi, Kw("Break"),
                  Sep("BraceRight")>>
    /\ {5, 6} \subseteq Boundaries(tokens)
    /\ ret.expressions =
           <<Group(<<Binary("Assign", LiteralIdentifier("c"), LiteralIdentifier("a")), Break>>)>>

(***************************************************************************)
(* Function calls: f ( X ) and c = f ( X ), X any tokens out of names,     *)
(* numbers, + and commas, with and without the closing paren.              *)
(***************************************************************************)
ArgAlphabet == {IdA, One, Op("Add"), Sep("Comma")}

CallPrefixes == {<<IdF, Sep("ParenLeft")>>, <<IdC, Op("Assign"), IdF, Sep("ParenLeft")>>}

InitCall ==
    \E m \in 0..MaxArgLen : \E X \in [1..m -> ArgAlphabet] :
        \E pre \in CallPrefixes, closed \in BOOLEAN :
            Start(pre \o X \o (IF closed THEN <<Sep("ParenRight")>> ELSE <<>>))

SpecCall == InitCall /\ [][Next]_vars

\* the position of the n-th comma of X; 0 and Len(X) + 1 stand for its ends
CommaPos(X, n) ==
    LET commas == {i \in 1..Len(X) : X[i] = Sep("Comma")} IN
    IF n = 0 THEN 0
    ELSE IF n > Cardinality(commas) THEN Len(X) + 1
    ELSE CHOOSE i \in commas : Cardinality({c \in commas : c < i}) = n - 1

\* the n-th of the parts the commas cut X into
Segment(X, n) == SubSeq(X, CommaPos(X, n - 1) + 1, CommaPos(X, n) - 1)

\* the arguments written in X: its parts, the last one left out when it is
\* the empty part after a trailing comma
Arguments(X) ==
    LET n == Cardinality({i \in 1..Len(X) : X[i] = Sep("Comma")}) + 1
        k == IF Len(X) = 0 THEN 0
             ELSE IF n >= 2 /\ Segment(X, n) = <<>> THEN n - 1 ELSE n
    IN [j \in 1..k |-> Segment(X, j)]

\* seg is one expression, all of it
WholeExpression(seg) ==
    LET r == ReadExpression(seg, 1) IN r.ok /\ r.pos = Len(seg) + 1

\* the tokens after the paren of the call, the closing paren left out
CallInside(toks) ==
    LET from == IF toks[1] = IdF THEN 3 ELSE 5
        to == IF toks[Len(toks)] = Sep("ParenRight") THEN Len(toks) - 1 ELSE Len(toks)
    IN SubSeq(toks, from, to)

\* C12: f ( X ) yields Function f with the expressions of the arguments of X
\* in order when X is empty or a list of expressions separated by commas,
\* with or without one comma after the last; with an empty argument or anything
\* else that is no expression in the list, or without the closing paren, the
\* input is rejected.
C12_FunctionCall ==
    Returned =>
        LET X == CallInside(tokens)
            args == Arguments(X)
            closed == tokens[Len(tokens)] = Sep("ParenRight")
            call == Function("f", [j \in 1..Len(args) |-> ExprOf(args[j])])
        IN IF closed /\ \A j \in 1..Len(args) : WholeExpression(args[j])
           THEN ret = OkAst(<<IF tokens[1] = IdF THEN call
                              ELSE Binary("Assign", LiteralIdentifier("c"), call)>>)
           ELSE ~ret.ok

\* f ( a , 1 , ) has been parsed into a call with two parameters
C12_Witness ==
    /\ ReturnedOk
    /\ tokens = <<IdF, Sep("ParenLeft"), IdA, Sep("Comma"), One, Sep("Comma"),
                  Sep("ParenRight")>>
    /\ ret.expressions = <<Function("f", <<LiteralIdentifier("a"), LiteralReal("1")>>)>>

(***************************************************************************)
(* Line numbers.  The token stream is that of the source written with a    *)
(* line break after every semicolon.                                       *)
(***************************************************************************)
\* the 1-based source line of the i-th token, or of the end of input
LineOf(toks, i) == 1 + Cardinality({j \in 1..Len(toks) : j < i /\ toks[j] = Semi})

\* C13: the line number of an error is the source line of the token the parser
\* met last, or of the token or the end of input it stands before.
C13_ErrorLine ==
    ReturnedErr =>
        \/ pos > 1 /\ ret.line = LineOf(tokens, pos - 1)
        \/ ret.line = LineOf(tokens, pos)

\* c = a ; else, with else on line 2, has been rejected with line 1
C13_LineOne ==
    /\ ReturnedErr
    /\ tokens = <<IdC, Op("Assign"), IdA, Semi, Kw("Else")>>
    /\ LineOf(tokens, 5) = 2
    /\ ret.err = "Invalid Keyword at beginning of expression"
    /\ ret.line = 1

(***************************************************************************)
(* First tokens: [break] t rest, t any token.                              *)
(***************************************************************************)
Keywords ==
    {"Var", "Do", "Until", "If", "Else", "For", "Repeat", "Switch", "Case", "Default",
     "With", "While", "Break", "Continue", "Exit", "Return"}
Separators ==
    {"ParenLeft", "ParenRight", "BraceLeft", "BraceRight", "BracketLeft", "BracketRight",
     "Comma", "Semicolon", "Colon", "Period", "Then"}

AnyToken ==
    {Kw(k) : k \in Keywords} \cup {Sep(x) : x \in Separators} \cup {Op(o) : o \in LexerOps}
        \cup {IdA, One, Str}

InitFirst ==
    \E t \in AnyToken,
       pre \in {<<>>, <<Kw("Break")>>, <<Semi, Kw("Var"), IdA>>},
       rest \in {<<>>, <<IdA>>, <<Op("Assign"), One>>, <<Semi>>, <<Sep("ParenRight")>>,
                 <<Sep("Colon")>>, <<One, Semi>>} :
        Start(pre \o <<t>> \o rest)

SpecFirst == InitFirst /\ [][Next]_vars

\* a Real, a String, an Operator, a separator other than brace, paren and
\* semicolon, or one of the keywords else and until
StartsNoStatement(tok) ==
    \/ tok.t \in {"Real", "String", "Operator"}
    \/ tok.t = "Separator" /\ tok.v \notin {"BraceLeft", "ParenLeft", "Semicolon"}
    \/ tok \in {Kw("Else"), Kw("Until")}

\* C14: read_line fails on every token that starts no statement, and when a
\* statement of the input starts with one, AST::new returns Err, which names
\* an invalid token at the beginning, with that token the last one read.
C14_InvalidFirstToken ==
    Returned =>
        /\ \A p \in 1..Len(tokens) :
               StartsNoStatement(tokens[p]) => ~read_line(tokens, p).ok
        /\ \A p \in StatementStops(tokens, 1, FALSE) :
               StartsNoStatement(Peek(tokens, p)) =>
                   /\ ~ret.ok
                   /\ ret.err \in {"Invalid Keyword at beginning of expression",
                                   "Invalid Separator at beginning of expression",
                                   "Invalid token at beginning of expression"}
                   /\ pos = p + 1

\* break then has been rejected at then
C14_Witness ==
    /\ ReturnedErr
    /\ tokens = <<Kw("Break"), Sep("Then")>>
    /\ ret.err = "Invalid Separator at beginning of expression"

(***************************************************************************)
(* The end of input inside a construct.                                    *)
(***************************************************************************)
\* constructs cut short, each with the tokens that complete it: E is an
\* expression and S a statement
CutShort(E, S) ==
    {<<<<Kw("If")>> \o E, S>>,
     <<<<Kw("If")>> \o E \o <<Sep("Then")>>, S>>,
     <<<<Kw("If")>> \o E \o S \o <<Kw("Else")>>, S>>,
     <<<<Kw("While")>> \o E, S>>,
     <<<<Kw("Repeat")>> \o E, S>>,
     <<<<Kw("With")>> \o E, S>>,
     <<<<Kw("Switch")>> \o E, S>>,
     <<<<Kw("For"), Sep("ParenLeft")>> \o S \o <<Semi>> \o E \o <<Semi>> \o S
           \o <<Sep("ParenRight")>>, S>>,
     <<<<Kw("Do")>>, S \o <<Kw("Until")>> \o E>>,
     <<<<Kw("Do")>> \o S, <<Kw("Until")>> \o E>>,
     <<<<Kw("Do")>> \o S \o <<Kw("Until")>>, E>>,
     <<<<Sep("BraceLeft")>>, <<Sep("BraceRight")>>>>,
     <<<<Sep("BraceLeft")>> \o S, <<Sep("BraceRight")>>>>,
     <<<<Sep("BraceLeft")>> \o S \o <<Semi>>, <<Sep("BraceRight")>>>>,
     <<<<IdC, Op("Assign"), Sep("ParenLeft")>> \o E, <<Sep("ParenRight")>>>>,
     <<<<Sep("ParenLeft")>> \o E, <<Sep("ParenRight"), Op("Assign"), One>>>>,
     <<<<IdF, Sep("ParenLeft")>>, <<Sep("ParenRight")>>>>,
     <<<<IdF, Sep("ParenLeft")>> \o E, <<Sep("ParenRight")>>>>,
     <<<<IdF, Sep("ParenLeft")>> \o E \o <<Sep("Comma")>>, <<Sep("ParenRight")>>>>,
     <<<<IdC, Op("Assign"), IdA, Sep("BracketLeft")>>, <<Sep("BracketRight")>>>>,
     <<<<IdC, Op("Assign"), IdA, Sep("BracketLeft")>> \o E, <<Sep("BracketRight")>>>>,
     <<<<IdA, Sep("BracketLeft")>> \o E \o <<Sep("Comma")>>,
       <<Sep("BracketRight"), Op("Assign"), One>>>>}

CutExprs == {<<IdA>>, <<IdA, Op("LessThan"), One>>}
CutStmts == {<<Kw("Exit")>>, <<IdC, Op("Assign"), One>>}
\* what stands before the construct: nothing, a statement, or a header whose
\* body the construct is
CutBefore == {<<>>, <<Kw("Break")>>, <<Kw("While"), One>>}

CutInputs(complete) ==
    {pre \o c[1] \o (IF complete THEN c[2] ELSE <<>>) :
        pre \in CutBefore, c \in UNION {CutShort(E, S) : E \in CutExprs, S \in CutStmts}}

InitEof == \E complete \in BOOLEAN : \E s \in CutInputs(complete) : Start(s)

SpecEof == InitEof /\ [][Next]_vars

\* C15: an input that ends inside a construct (a header without its body, do
\* without until or without the condition, an open brace, paren or bracket) is
\* rejected at the end of input and no statement is returned; the input with
\* the construct completed is accepted.
C15_EndOfInput ==
    Returned =>
        /\ tokens \in CutInputs(FALSE) =>
               /\ ~ret.ok
               /\ pos = Len(tokens) + 1
               /\ "expressions" \notin DOMAIN ret
        /\ tokens \in CutInputs(TRUE) => ret.ok

\* break do exit has been rejected: until is missing
C15_Witness ==
    /\ ReturnedErr
    /\ tokens = <<Kw("Break"), Kw("Do"), Kw("Exit")>>
    /\ ret.err = "Unexpected token or EOF; until expected"

(***************************************************************************)
(* The empty AST.                                                          *)
(***************************************************************************)
OnlySemicolons(toks) == \A i \in 1..Len(toks) : toks[i] = Semi

\* AST::new is entered on the empty input and on every short input
InitEmpty == \E m \in 0..MaxEmptyLen : \E s \in [1..m -> CoreAlphabet] : Start(s)

SpecEmpty == InitEmpty /\ [][Next]_vars

\* C16: on the empty input and on an input of semicolons only, AST::new
\* returns Ok with the AST of AST::empty(), no expressions; no other input
\* yields it.
C16_Empty ==
    Returned =>
        /\ OnlySemicolons(tokens) => (ret.ok /\ [expressions |-> ret.expressions] = empty)
        /\ (ret.ok /\ ret.expressions = <<>>) => OnlySemicolons(tokens)

\* the empty input has been parsed
C16_Witness == ReturnedOk /\ tokens = <<>> /\ ret.expressions = empty.expressions

(***************************************************************************)
(* impl fmt::Display for Expr (ast.rs 126-189).  A text is built of pieces *)
(* and joined; blanks and commas that a fold puts between the members of a *)
(* list are pieces of their own, which trim_end takes off the end.  The    *)
(* rendering of no member ends in a blank or a comma.                      *)
(***************************************************************************)
RECURSIVE Join(_)
Join(pieces) == IF pieces = <<>> THEN "" ELSE Head(pieces) \o Join(Tail(pieces))

\* str::trim_end, trim_end_matches: the pieces of chars at the end taken off
RECURSIVE TrimEnd(_, _)
TrimEnd(pieces, chars) ==
    IF pieces # <<>> /\ pieces[Len(pieces)] \in chars
    THEN TrimEnd(SubSeq(pieces, 1, Len(pieces) - 1), chars)
    ELSE pieces

\* .fold(String::new(), |acc, x| acc + &format!("{}{sep}", x)): every member
\* followed by the pieces of sep
Fold(texts, sep) == Flatten([i \in 1..Len(texts) |-> <<texts[i]>> \o sep])

\* the rendering of an operator (token.rs), taken to be its name
OpText(op) == op

\* .filter(|ex| **ex != Expr::Nop)
NotNop(e) == e # Nop

RECURSIVE Display(_)
Display(e) ==
    LET D(x) == Display(x)
        All(list) == [i \in 1..Len(list) |-> Display(list[i])]
    IN
    CASE e.k = "LiteralIdentifier" -> e.v
      [] e.k = "LiteralReal" -> e.v
      [] e.k = "LiteralString" -> Join(<<"\"", e.v, "\"">>)
      [] e.k = "Unary" -> Join(<<"(", OpText(e.op), " ", D(e.child), ")">>)
      [] e.k = "Binary" -> Join(<<"(", OpText(e.op), " ", D(e.left), " ", D(e.right), ")">>)
      [] e.k = "DoUntil" -> Join(<<"(do ", D(e.body), " until ", D(e.cond), ")">>)
      [] e.k = "For" ->
            Join(<<"(for (", D(e.start), ", ", D(e.cond), ", ", D(e.step), ") ", D(e.body), ")">>)
      [] e.k = "Function" ->
            Join(<<"(@", e.name, " ">>
                 \o TrimEnd(Fold(All(SelectSeq(e.params, NotNop)), <<" ">>), {" "})
                 \o <<")">>)
      [] e.k = "Group" ->
            Join(<<"<">>
                 \o TrimEnd(Fold(All(SelectSeq(e.children, NotNop)), <<",", " ">>), {" ", ","})
                 \o <<">">>)
      [] e.k = "If" ->
            IF e.else_body # NoneExpr
            THEN Join(<<"(if ", D(e.cond), " ", D(e.body), " ", D(e.else_body), ")">>)
            ELSE Join(<<"(if ", D(e.cond), " ", D(e.body), ")">>)
      [] e.k = "Repeat" -> Join(<<"(repeat ", D(e.count), " ", D(e.body), ")">>)
      [] e.k = "Switch" -> Join(<<"(switch ", D(e.input), " ", D(e.body), ")">>)
      [] e.k = "Var" -> Join(<<"(var ">> \o TrimEnd(Fold(e.vars, <<" ">>), {" "}) \o <<")">>)
      [] e.k = "With" -> Join(<<"(with ", D(e.target), " ", D(e.body), ")">>)
      [] e.k = "While" -> Join(<<"(while ", D(e.cond), " ", D(e.body), ")">>)
      [] e.k = "Case" -> Join(<<"(case ", D(e.child), ")">>)
      [] e.k = "Default" -> "(default)"
      [] e.k = "Continue" -> "(continue)"
      [] e.k = "Break" -> "(break)"
      [] e.k = "Exit" -> "(exit)"
      [] e.k = "Return" -> Join(<<"(return ", D(e.child), ")">>)
      [] e.k = "Nop" -> ""

\* the caller renders every expression of the AST it got
Render ==
    /\ pc = "done"
    /\ ret.ok
    /\ out' = [i \in 1..Len(ret.expressions) |-> Display(ret.expressions[i])]
    /\ pc' = "rendered"
    /\ UNCHANGED <<tokens, pos, expressions, res, ret>>

NextRender == Next \/ Render

\* inputs of var declarations, parsed and rendered
SpecRenderVar == InitVar /\ [][NextRender]_vars

Rendered == pc = "rendered"

\* "(var", then a blank and the name for each name, then ")"
VarText(names) ==
    Join(<<"(var">> \o Flatten([i \in 1..Len(names) |-> <<" ", names[i]>>]) \o <<")">>)

\* C17: a Var with the names n1..nk is printed as "(var", a blank and the name
\* for each name, and ")", with no blank before the closing paren: "(var)"
\* when there are no names.
C17_VarRendering ==
    Rendered =>
        \A i \in 1..Len(ret.expressions) :
            ret.expressions[i].k = "Var" => out[i] = VarText(ret.expressions[i].vars)

\* var has been parsed and printed with a blank before the closing paren
C17_EmptyVar ==
    /\ Rendered
    /\ tokens = <<Kw("Var")>>
    /\ ret.expressions = <<Var(<<>>)>>
    /\ out = <<"(var )">>

(***************************************************************************)
(* Assignment operators in and out of expressions: a op 1 in every place   *)
(* of an expression and of a statement, op any assignment operator.        *)
(***************************************************************************)
\* the places of an expression, each holding the expression e
ExprPlaces(e) ==
    {<<IdC, Op("Assign")>> \o e,
     <<IdC, Op("Assign"), Op("Subtract")>> \o e,
     <<IdC, Op("Assign"), IdB, Op("Add")>> \o e,
     <<IdC, Op("AssignAdd"), Sep("ParenLeft")>> \o e \o <<Sep("ParenRight")>>,
     <<IdC, Op("Assign"), IdB, Sep("BracketLeft")>> \o e \o <<Sep("BracketRight")>>,
     <<IdB, Sep("BracketLeft"), One, Sep("Comma")>> \o e
         \o <<Sep("BracketRight"), Op("Assign"), One>>,
     <<IdF, Sep("ParenLeft")>> \o e \o <<Sep("ParenRight")>>,
     <<IdC, Op("Assign"), IdF, Sep("ParenLeft"), One, Sep("Comma")>> \o e
         \o <<Sep("ParenRight")>>,
     <<Kw("If")>> \o e \o <<Kw("Exit")>>,
     <<Kw("While")>> \o e \o <<Kw("Exit")>>,
     <<Kw("Repeat")>> \o e \o <<Kw("Exit")>>,
     <<Kw("With")>> \o e \o <<Kw("Exit")>>,
     <<Kw("Switch")>> \o e \o <<Kw("Exit")>>,
     <<Kw("Do"), Kw("Exit"), Kw("Until")>> \o e,
     <<Kw("For"), Sep("ParenLeft"), Semi, Semi>> \o e \o <<Semi, Semi, Sep("ParenRight"), Semi>>,
     <<Kw("Case")>> \o e \o <<Sep("Colon")>>,
     <<Kw("Return")>> \o e}

\* the places of a statement, each holding the statement s
StmtPlaces(s) ==
    {s,
     <<Kw("Break")>> \o s,
     <<Sep("BraceLeft")>> \o s \o <<Sep("BraceRight")>>,
     <<Kw("If"), One>> \o s \o <<Kw("Else")>> \o s,
     <<Kw("While"), One>> \o s,
     <<Kw("Do")>> \o s \o <<Kw("Until"), One>>,
     <<Kw("For"), Sep("ParenLeft")>> \o s \o <<Semi, One, Semi>> \o s
         \o <<Sep("ParenRight")>> \o s}

OpOperation(op) == <<IdA, Op(op), One>>

InitAssignOp ==
    \E op \in AssignOps :
        \E s \in ExprPlaces(OpOperation(op)) \cup StmtPlaces(OpOperation(op)) : Start(s)

SpecAssignOp == InitAssignOp /\ [][Next]_vars

CompoundOps == AssignOps \ {"Assign"}

\* C18: in a returned AST an assignment operator is the operator of Binary
\* nodes that are statements and of no other node, and every compound
\* assignment token of the input is the operator of such a statement; a op 1
\* with a compound assignment operator is rejected in every place of an
\* expression, and accepted in every place of a statement.
C18_AssignmentOnlyStatement ==
    /\ ReturnedOk =>
         LET nodes == AstNodes(ret.expressions)
             stmts == AstStmts(ret.expressions)
         IN /\ \A i \in 1..Len(nodes) : nodes[i].k = "Unary" => nodes[i].op \notin AssignOps
            /\ \A op \in AssignOps : CountBinary(nodes, op) = CountBinary(stmts, op)
            /\ \A op \in CompoundOps : CountBinary(stmts, op) = CountTok(tokens, Op(op))
    /\ Returned =>
         \A op \in CompoundOps :
             /\ tokens \in ExprPlaces(OpOperation(op)) => ~ret.ok
             /\ tokens \in StmtPlaces(OpOperation(op)) => ret.ok

\* f ( a += 1 ) has been rejected
C18_Witness ==
    /\ ReturnedErr
    /\ tokens = <<IdF, Sep("ParenLeft"), IdA, Op("AssignAdd"), One, Sep("ParenRight")>>
    /\ ret.err = "Invalid operator found, expected evaluable"

(***************************************************************************)
(* The calls of read_binary_tree: every threshold, with and without a      *)
(* first token and an expected assignment, over short expressions.         *)
(***************************************************************************)
\* one operator of every precedence, and three without
TreeOps == {"And", "LessThan", "BinaryAnd", "BinaryShiftLeft", "Add", "Multiply",
            "Assign", "AssignAdd", "Not"}
TreeAlphabet == {IdA, Op("And"), Op("LessThan"), Op("Add"), Op("Multiply"),
                 Op("Assign"), Op("Not")}
Thresholds == 0..6

\* read_binary_tree is entered with lex at the first token of toks
InitTree ==
    /\ \/ \E m \in 0..MaxTreeLen : \E s \in [1..m -> TreeAlphabet] : tokens = s
       \/ \E o1, o2, o3 \in TreeOps :
              tokens = <<IdA, Op(o1), IdB, Op(o2), IdC, Op(o3), One>>
    /\ pos = 1
    /\ expressions = <<>>
    /\ pc = "read_binary_tree"
    /\ res = NoRes
    /\ ret = NoRet
    /\ out = <<>>

\* one call of read_binary_tree and its return; res keeps the arguments too
CallReadBinaryTree ==
    /\ pc = "read_binary_tree"
    /\ \E first_token \in {NoneTok, IdA}, expect_assignment \in BOOLEAN,
          lowest_prec \in Thresholds :
           res' = [first_token |-> first_token, expect_assignment |-> expect_assignment,
                   lowest_prec |-> lowest_prec,
                   result |-> read_binary_tree(tokens, pos, first_token,
                                               expect_assignment, lowest_prec)]
    /\ pos' = res'.result.pos
    /\ pc' = "tree"
    /\ UNCHANGED <<tokens, expressions, ret, out>>

SpecTree == InitTree /\ [][CallReadBinaryTree]_vars

TreeReturned == pc = "tree"
HandedBack == TreeReturned /\ res.result.ok /\ res.result.op # NoOp

\* C19: a call of read_binary_tree never ends in unreachable!(), and when it
\* returns Ok((expr, Some(op))), op has a precedence, which is strictly below
\* the call's lowest_prec; op is the last token read ('=' read as Equal), and
\* expr is what the same call returns, with no operator, on the input cut
\* before that token.
C19_TrailingOperator ==
    /\ TreeReturned => (res.result.ok \/ ~res.result.panic)
    /\ HandedBack =>
         LET r == res.result
             cut == SubSeq(tokens, 1, r.pos - 2)
         IN /\ GetOpPrecedence(r.op) # NoPrec
            /\ GetOpPrecedence(r.op) < res.lowest_prec
            /\ r.pos - 1 \in 1..Len(tokens)
            /\ tokens[r.pos - 1] \in {Op(r.op)} \cup
                   (IF r.op = "Equal" THEN {Op("Assign")} ELSE {})
            /\ read_binary_tree(cut, 1, res.first_token, res.expect_assignment,
                                res.lowest_prec)
                 = OkTree(r.expr, NoOp, r.pos - 1)

\* a * b + c read with threshold 5: a * b is returned and + handed back
C19_Witness ==
    /\ HandedBack
    /\ tokens = <<IdA, Op("Multiply"), IdB, Op("Add"), IdC, Op("Add"), One>>
    /\ res.lowest_prec = 5
    /\ res.first_token = NoneTok
    /\ res.result = OkTree(Binary("Multiply", LiteralIdentifier("a"), LiteralIdentifier("b")),
                           "Add", 5)

(***************************************************************************)
(* Prefix and postfix chains: c = [1 +] u1 ... un atom postfix [- 2].      *)
(***************************************************************************)
IdD == Ident("d")
Two == RealTok("2")
UnaryOps == {"Add", "Subtract", "Not", "Complement"}
\* the operators put before an atom: the four prefix operators and one other
PrefixOps == UnaryOps \cup {"Multiply"}
Befores == {<<>>, <<One, Op("Add")>>, <<One, Op("Multiply")>>}
UnaryAtoms == {<<IdB>>, <<IdF, Sep("ParenLeft"), Sep("ParenRight")>>}
Postfixes == {<<Sep("Period"), IdC>>,
              <<Sep("BracketLeft"), IdD, Sep("BracketRight")>>,
              <<Sep("BracketLeft"), Op("Add"), IdD, Sep("BracketRight")>>}
\* the chains of no, one and two links
PostfixChains == {<<>>} \cup Postfixes \cup {p \o q : p, q \in Postfixes}
Afters == {<<>>, <<Op("Subtract"), Two>>, <<Op("Divide"), Two>>}

InitUnary ==
    \E before \in Befores, n \in 0..MaxPrefix, atom \in UnaryAtoms,
       post \in PostfixChains, after \in Afters :
        \E us \in [1..n -> PrefixOps] :
            Start(<<IdC, Op("Assign")>> \o before \o [i \in 1..n |-> Op(us[i])]
                  \o atom \o post \o after)

SpecUnary == InitUnary /\ [][Next]_vars

\* the parts of such an input, found from its tokens
BeforeOf(t) == IF \E b \in Befores \ {<<>>} : StartsWith(t, b) THEN SubSeq(t, 1, 2) ELSE <<>>
AfterOf(t) ==
    IF \E a \in Afters \ {<<>>} : Len(a) <= Len(t) /\ SubSeq(t, Len(t) - 1, Len(t)) = a
    THEN SubSeq(t, Len(t) - 1, Len(t)) ELSE <<>>
RECURSIVE PrefixLen(_)
PrefixLen(t) == IF t # <<>> /\ Head(t).t = "Operator" THEN 1 + PrefixLen(Tail(t)) ELSE 0
AtomLen(t) == IF Head(t) = IdF THEN 3 ELSE 1

\* a Unary node, written out
Prefixed(u, x) == [k |-> "Unary", op |-> u, child |-> x]

AtomNode(t) ==
    CASE Head(t) = IdF -> Function("f", <<>>)
      [] Head(t) = IdB -> LiteralIdentifier("b")

\* x with the postfix chain post attached, first link innermost
RECURSIVE Attached(_, _)
Attached(x, post) ==
    IF post = <<>> THEN x
    ELSE IF Head(post) = Sep("Period")
    THEN Attached(DerefNode(x, post[2].v), SubSeq(post, 3, Len(post)))
    ELSE IF post[2] = IdD
    THEN Attached(IndexNode(x, <<LiteralIdentifier("d")>>), SubSeq(post, 4, Len(post)))
    ELSE Attached(IndexNode(x, <<Prefixed("Add", LiteralIdentifier("d"))>>),
                  SubSeq(post, 5, Len(post)))

\* Unary(u1, Unary(u2, ... Unary(un, x)))
RECURSIVE Nested(_, _)
Nested(us, x) == IF us = <<>> THEN x ELSE Prefixed(Head(us).v, Nested(Tail(us), x))

\* u as one operand of the operators before and after it
Surrounded(before, u, after) ==
    CASE before = <<>> /\ after = <<>> -> u
      [] before = <<>> /\ after # <<>> -> Binary(after[1].v, u, LiteralReal("2"))
      [] before # <<>> /\ after = <<>> -> Binary(before[2].v, LiteralReal("1"), u)
      [] OTHER ->
            IF GetOpPrecedence(after[1].v) > GetOpPrecedence(before[2].v)
            THEN Binary(before[2].v, LiteralReal("1"),
                        Binary(after[1].v, u, LiteralReal("2")))
            ELSE Binary(after[1].v, Binary(before[2].v, LiteralReal("1"), u),
                        LiteralReal("2"))

Operand(t) ==
    LET n == PrefixLen(t)
        a == SubSeq(t, n + 1, Len(t))
    IN Nested(SubSeq(t, 1, n),
              Attached(AtomNode(a), SubSeq(a, AtomLen(a) + 1, Len(a))))

\* C20: c = [1 op] u1 ... un X [op 2], X an atom with a chain of .c and [d]
\* after it and every ui one of + - ! ~, is read as the assignment to c of the
\* tree in which Unary(u1, ... Unary(un, X)), X with its whole chain attached,
\* is one operand of the operators around it; with another operator among
\* the ui the input is rejected.
C20_PrefixPostfix ==
    Returned =>
        LET t0 == After(tokens, <<IdC, Op("Assign")>>)
            before == BeforeOf(t0)
            t1 == After(t0, before)
            after == AfterOf(t1)
            t2 == SubSeq(t1, 1, Len(t1) - Len(after))
        IN IF \A i \in 1..PrefixLen(t2) : t2[i].v \in UnaryOps
           THEN ret = OkAst(<<Binary("Assign", LiteralIdentifier("c"),
                                     Surrounded(before, Operand(t2), after))>>)
           ELSE ~ret.ok

\* c = 1 + ! ~ - b . c [ + d ] - 2 has been read
C20_Witness ==
    /\ ReturnedOk
    /\ tokens = <<IdC, Op("Assign"), One, Op("Add"), Op("Not"), Op("Complement"),
                  Op("Subtract"), IdB, Sep("Period"), IdC, Sep("BracketLeft"), Op("Add"),
                  IdD, Sep("BracketRight"), Op("Subtract"), Two>>
    /\ ret.expressions[1].right.left.right
         = Prefixed("Not", Prefixed("Complement", Prefixed("Subtract",
               IndexNode(DerefNode(LiteralIdentifier("b"), "c"),
                         <<Prefixed("Add", LiteralIdentifier("d"))>>))))

(***************************************************************************)
(* Statements that start with a parenthesis: ( E ) postfix op rhs.         *)
(***************************************************************************)
\* the expressions put between the parentheses, each with its tree
ParenExprs ==
    {<<<<IdA>>, LiteralIdentifier("a")>>,
     <<<<IdA, Op("Add"), One>>, Binary("Add", LiteralIdentifier("a"), LiteralReal("1"))>>,
     <<<<IdA, Op("Assign"), One>>, Binary("Equal", LiteralIdentifier("a"), LiteralReal("1"))>>,
     <<<<Sep("ParenLeft"), IdA, Sep("ParenRight")>>, LiteralIdentifier("a")>>}
\* what follows the postfix chain: an assignment operator, another operator, none
ParenOps == AssignOps \cup {"Add", "Not", NoOp}
ParenRhs ==
    {<<<<One>>, LiteralReal("1")>>,
     <<<<IdB, Op("Assign"), One>>, Binary("Equal", LiteralIdentifier("b"), LiteralReal("1"))>>}

ParenInput(E, post, op, rhs) ==
    <<Sep("ParenLeft")>> \o E[1] \o <<Sep("ParenRight")>> \o post
        \o (IF op = NoOp THEN <<>> ELSE <<Op(op)>>) \o rhs[1]

InitParen ==
    \E E \in ParenExprs, post \in PostfixChains, op \in ParenOps, rhs \in ParenRhs :
        Start(ParenInput(E, post, op, rhs))

SpecParen == InitParen /\ [][Next]_vars

\* C21: ( E ) postfix op rhs is read as Binary(op, postfix(E), rhs) when op is
\* an assignment operator, E and rhs read as expressions ('=' in them is
\* Equal), and rejected when op is another operator or missing; no node
\* stands for the parentheses: ( a ) postfix op rhs and a postfix op rhs give
\* the same statement.
C21_ParenStatement ==
    Returned =>
        \A E \in ParenExprs, post \in PostfixChains, op \in ParenOps, rhs \in ParenRhs :
            tokens = ParenInput(E, post, op, rhs) =>
                IF op \in AssignOps
                THEN /\ ret = OkAst(<<Binary(op, Attached(E[2], post), rhs[2])>>)
                     /\ E[1] = <<IdA>> =>
                            LET bare == read_line(E[1] \o post \o <<Op(op)>> \o rhs[1], 1)
                            IN bare.ok /\ <<bare.expr>> = ret.expressions
                ELSE ~ret.ok

\* ( a + 1 ) . c = 1 has been read
C21_Witness ==
    /\ ReturnedOk
    /\ tokens = <<Sep("ParenLeft"), IdA, Op("Add"), One, Sep("ParenRight"),
                  Sep("Period"), IdC, Op("Assign"), One>>
    /\ ret.expressions =
         <<Binary("Assign",
                  Binary("Deref", Binary("Add", LiteralIdentifier("a"), LiteralReal("1")),
                         LiteralIdentifier("c")),
                  LiteralReal("1"))>>

(***************************************************************************)
(* Array accessors: c = a [ X ] and a [ X ] = 1, X any tokens out of names, *)
(* numbers, + and commas, with and without the closing bracket.            *)
(***************************************************************************)
IndexPrefixes == {<<IdC, Op("Assign"), IdA, Sep("BracketLeft")>>, <<IdA, Sep("BracketLeft")>>}

IndexInput(pre, X, closed) ==
    pre \o X \o (IF closed THEN <<Sep("BracketRight")>> ELSE <<>>)
        \o (IF pre[2] = Sep("BracketLeft") THEN <<Op("Assign"), One>> ELSE <<>>)

InitIndex ==
    \E m \in 0..MaxArgLen : \E X \in [1..m -> ArgAlphabet] :
        \E pre \in IndexPrefixes, closed \in BOOLEAN : Start(IndexInput(pre, X, closed))

SpecIndex == InitIndex /\ [][Next]_vars

\* the tokens after the bracket, up to the closing bracket or the end
IndexInside(toks) ==
    LET from == IF toks[2] = Sep("BracketLeft") THEN 3 ELSE 5
        stops == {i \in from..Len(toks) : toks[i] \in {Sep("BracketRight"), Op("Assign")}}
        to == IF stops = {} THEN Len(toks)
              ELSE (CHOOSE i \in stops : \A j \in stops : i <= j) - 1
    IN SubSeq(toks, from, to)

\* C22: a [ X ] yields Binary(Index, a, Group(ds)), ds the expressions of the
\* dimensions written in X, in order: none when X is empty, and one comma
\* after the last adds none; it is rejected with an empty dimension or anything
\* else that is no expression in X, or without the closing bracket.
C22_IndexDimensions ==
    Returned =>
        LET X == IndexInside(tokens)
            dims == Arguments(X)
            closed == Sep("BracketRight") \in {tokens[i] : i \in 1..Len(tokens)}
            node == IndexNode(LiteralIdentifier("a"),
                              [j \in 1..Len(dims) |-> ExprOf(dims[j])])
        IN IF closed /\ \A j \in 1..Len(dims) : WholeExpression(dims[j])
           THEN ret = OkAst(<<IF tokens[2] = Sep("BracketLeft")
                              THEN Binary("Assign", node, LiteralReal("1"))
                              ELSE Binary("Assign", LiteralIdentifier("c"), node)>>)
           ELSE ~ret.ok

\* c = a [ ] has been read with an empty Group
C22_EmptyBrackets ==
    /\ ReturnedOk
    /\ tokens = <<IdC, Op("Assign"), IdA, Sep("BracketLeft"), Sep("BracketRight")>>
    /\ ret.expressions =
         <<Binary("Assign", LiteralIdentifier("c"),
                  Binary("Index", LiteralIdentifier("a"), Group(<<>>)))>>

\* c = a [ a , 1 , ] has been read with the dimensions a and 1
C22_Witness ==
    /\ ReturnedOk
    /\ tokens = <<IdC, Op("Assign"), IdA, Sep("BracketLeft"), IdA, Sep("Comma"), One,
                  Sep("Comma"), Sep("BracketRight")>>
    /\ ret.expressions =
         <<Binary("Assign", LiteralIdentifier("c"),
                  Binary("Index", LiteralIdentifier("a"),
                         Group(<<LiteralIdentifier("a"), LiteralReal("1")>>)))>>

(***************************************************************************)
(* if statements: if cond [then] body, followed by nothing, by else and a  *)
(* statement, by a semicolon and else, by another statement or by else at  *)
(* the end; alone or in braces.  do statements: do body [;] until cond.    *)
(***************************************************************************)
IfConds == {<<IdA>>, <<IdA, Op("Assign"), One>>, <<Sep("ParenLeft"), IdA, Sep("ParenRight")>>}
IfBodies == {<<Kw("Break")>>, <<IdC, Op("Assign"), IdA>>, <<Semi>>,
             <<Sep("BraceLeft"), Sep("BraceRight")>>,
             <<IdF, Sep("ParenLeft"), Sep("ParenRight")>>,
             <<Kw("If"), IdB, Kw("Continue")>>}
IfSeconds == {<<Kw("Exit")>>, <<IdC, Op("Assign"), One>>, <<Semi>>}
IfTails == {"none", "else", "semi_else", "next", "else_eof"}

IfTail(kind, S2) ==
    CASE kind = "none" -> <<>>
      [] kind = "else" -> <<Kw("Else")>> \o S2
      [] kind = "semi_else" -> <<Semi, Kw("Else")>> \o S2
      [] kind = "next" -> S2
      [] kind = "else_eof" -> <<Kw("Else")>>

IfInput(cond, n, body, kind, S2, braces) ==
    LET stmt == <<Kw("If")>> \o cond \o [i \in 1..n |-> Sep("Then")] \o body \o IfTail(kind, S2)
    IN IF braces THEN <<Sep("BraceLeft")>> \o stmt \o <<Sep("BraceRight")>> ELSE stmt

DoInput(body, semi, cond) == <<Kw("Do")>> \o body \o Semis(semi) \o <<Kw("Until")>> \o cond

InitIf ==
    \/ \E cond \in IfConds, n \in 0..2, body \in IfBodies, kind \in IfTails,
          S2 \in IfSeconds, braces \in BOOLEAN :
           Start(IfInput(cond, n, body, kind, S2, braces))
    \/ \E body \in IfBodies, semi \in 0..1, cond \in IfConds : Start(DoInput(body, semi, cond))

SpecIf == InitIf /\ [][Next]_vars

\* P holds of every way tokens is written as one of the if inputs
IfEveryReading(P(_, _, _, _, _, _)) ==
    \A cond \in IfConds, n \in 0..2, body \in IfBodies, kind \in IfTails,
       S2 \in IfSeconds, braces \in BOOLEAN :
        tokens = IfInput(cond, n, body, kind, S2, braces) => P(cond, n, body, kind, S2, braces)

\* an If node, written out
IfNode(cond, body, else_body) ==
    [k |-> "If", cond |-> cond, body |-> body, else_body |-> else_body]

NestedIf(body) == body[1] = Kw("If")

\* the statements kept of a list: every one but Nop
Kept(stmts) == SelectSeq(stmts, LAMBDA e : e # Nop)

\* the AST of statements stmts, alone or in braces
AstOf(stmts, braces) == OkAst(IF braces THEN <<Group(Kept(stmts))>> ELSE Kept(stmts))

\* C23: if cond [then] body, body no if itself, yields If{cond, body, else_body}
\* whether then is written or not; else_body is the statement after else when
\* else is the token after body, and None when the input ends there or
\* another statement follows; a second then, or else with no statement after
\* it, is rejected.
C23_If ==
    Returned =>
        IfEveryReading(LAMBDA cond, n, body, kind, S2, braces :
            ~NestedIf(body) =>
                CASE n = 2 \/ kind = "else_eof" -> ~ret.ok
                  [] kind = "none" ->
                        ret = AstOf(<<IfNode(ExprOf(cond), StmtOf(body), NoneExpr)>>, braces)
                  [] kind = "else" ->
                        ret = AstOf(<<IfNode(ExprOf(cond), StmtOf(body), StmtOf(S2))>>, braces)
                  [] kind = "next" ->
                        ret = AstOf(<<IfNode(ExprOf(cond), StmtOf(body), NoneExpr), StmtOf(S2)>>,
                                    braces)
                  [] OTHER -> TRUE)

\* if a then break else exit has been read
C23_Witness ==
    /\ ReturnedOk
    /\ tokens = <<Kw("If"), IdA, Sep("Then"), Kw("Break"), Kw("Else"), Kw("Exit")>>
    /\ ret.expressions = <<IfNode(LiteralIdentifier("a"), Break, Exit)>>

\* C27: in if c1 [then] if b continue else S2 the else belongs to the inner
\* if: If{c1, If{b, Continue, Some(S2)}, None}.
C27_DanglingElse ==
    Returned =>
        IfEveryReading(LAMBDA cond, n, body, kind, S2, braces :
            (NestedIf(body) /\ n < 2 /\ kind = "else") =>
                ret = AstOf(<<IfNode(ExprOf(cond),
                                     IfNode(LiteralIdentifier("b"), Continue, StmtOf(S2)),
                                     NoneExpr)>>, braces))

\* if a if b continue else exit has been read
C27_Witness ==
    /\ ReturnedOk
    /\ tokens = <<Kw("If"), IdA, Kw("If"), IdB, Kw("Continue"), Kw("Else"), Kw("Exit")>>
    /\ ret.expressions =
         <<IfNode(LiteralIdentifier("a"), IfNode(LiteralIdentifier("b"), Continue, Exit),
                  NoneExpr)>>

\* C28: if cond body ; else S2 is rejected, else being met at the beginning of
\* a statement, and do body ; until cond is rejected, until being expected
\* where the semicolon stands; without the semicolon both are read.
C28_SemicolonBeforeKeyword ==
    /\ Returned =>
         IfEveryReading(LAMBDA cond, n, body, kind, S2, braces :
             /\ kind = "semi_else" =>
                    /\ ~ret.ok
                    /\ n < 2 => ret.err = "Invalid Keyword at beginning of expression"
             /\ (kind = "else" /\ n < 2) => ret.ok)
    /\ Returned =>
         \A body \in IfBodies, semi \in 0..1, cond \in IfConds :
             tokens = DoInput(body, semi, cond) =>
                 IF semi = 1
                 THEN ~ret.ok /\ ret.err = "Unexpected token or EOF; until expected"
                 ELSE ret = OkAst(<<DoUntil(ExprOf(cond), StmtOf(body))>>)

\* if a break ; else exit has been rejected at else
C28_Witness ==
    /\ ReturnedErr
    /\ tokens = <<Kw("If"), IdA, Kw("Break"), Semi, Kw("Else"), Kw("Exit")>>
    /\ ret.err = "Invalid Keyword at beginning of expression"
    /\ tokens[pos - 1] = Kw("Else")

\* do break ; until a has been rejected at the semicolon
C28_DoWitness ==
    /\ ReturnedErr
    /\ tokens = <<Kw("Do"), Kw("Break"), Semi, Kw("Until"), IdA>>
    /\ ret.err = "Unexpected token or EOF; until expected"
    /\ tokens[pos - 1] = Semi

(***************************************************************************)
(* The threshold 0: read_binary_tree called with it, and AST::new, whose   *)
(* read_line calls it with nothing else.                                   *)
(***************************************************************************)
InitZero == InitTree \/ InitEmpty
NextZero == CallReadBinaryTree \/ Next
SpecZero == InitZero /\ [][NextZero]_vars

\* the errors and panics that follow a handed back operator
StrayOrUnreachable ==
    {"Stray operator in expression", "read_binary_tree returned an operator", "unreachable"}

\* C24: read_binary_tree called with lowest_prec 0 hands back no operator, and
\* neither it nor read_line nor AST::new ends in one of the unreachable!()
\* assertions or in the stray operator error.
C24_NoOperatorAtZero ==
    /\ (TreeReturned /\ res.lowest_prec = 0) =>
           IF res.result.ok THEN res.result.op = NoOp
           ELSE ~res.result.panic /\ res.result.err \notin StrayOrUnreachable
    /\ (pc = "match" /\ ~res.ok) => (~res.panic /\ res.err \notin StrayOrUnreachable)
    /\ ReturnedErr => ret.err \notin StrayOrUnreachable

\* a and b < c + 1 read with threshold 0: all of it is the tree
C24_Witness ==
    /\ TreeReturned
    /\ tokens = <<IdA, Op("And"), IdB, Op("LessThan"), IdC, Op("Add"), One>>
    /\ res.lowest_prec = 0
    /\ res.first_token = NoneTok
    /\ ~res.expect_assignment
    /\ res.result.ok
    /\ res.result.op = NoOp
    /\ res.result.pos = 8

(***************************************************************************)
(* Termination.  AST::new runs under weak fairness: a step that can be     *)
(* taken is taken.  Beside it each of the four parser functions is entered *)
(* at every position of an input, and returns.                             *)
(***************************************************************************)
TermAlphabet ==
    {IdA, Op("Add"), Op("Assign"), Sep("ParenLeft"), Sep("ParenRight"), Sep("BracketLeft"),
     Sep("BracketRight"), Sep("Comma"), Sep("Period"), Semi, Sep("BraceLeft"),
     Sep("BraceRight")}

\* inputs that go round every loop of the parser, closed and cut short
LoopInputs ==
    {<<IdC, Op("Assign"), IdA, Sep("BracketLeft"), IdA, Sep("Comma"), One, Sep("Comma"),
       Sep("BracketRight")>>,
     <<IdC, Op("Assign"), IdA, Sep("BracketLeft"), One, Sep("Comma")>>,
     <<IdF, Sep("ParenLeft"), IdA, Sep("Comma"), One, Op("Add"), IdA, Sep("Comma"),
       Sep("ParenRight")>>,
     <<IdF, Sep("ParenLeft"), IdA, Sep("Comma")>>,
     <<Sep("BraceLeft"), IdC, Op("Assign"), IdA, Semi, Semi, Kw("Break"), Sep("BraceRight")>>,
     <<Sep("BraceLeft"), IdC, Op("Assign"), IdA, Semi>>,
     <<IdC, Op("Assign"), One, Op("Add"), Op("Not"), Op("Subtract"), IdB, Sep("Period"), IdC,
       Sep("BracketLeft"), Op("Add"), IdD, Sep("BracketRight"), Op("Multiply"), Two,
       Op("Subtract"), One>>,
     <<Sep("ParenLeft"), IdA, Op("Add"), One, Sep("ParenRight"), Sep("Period"), IdC,
       Op("Assign"), One>>,
     <<Kw("If"), IdA, Sep("Then"), Kw("If"), IdB, Kw("Break"), Kw("Else"), Kw("Exit")>>,
     <<Kw("For"), Sep("ParenLeft"), IdI, Op("Assign"), One, Semi, IdI, Op("LessThan"), One,
       Semi, IdI, Op("AssignAdd"), One, Semi, Semi, Sep("ParenRight"), Semi>>,
     <<Kw("Do"), Kw("Var"), IdA, Sep("Comma"), IdB, Sep("Comma"), Kw("Until"), IdA>>,
     <<Semi, Semi, Kw("Var"), Semi, Kw("Else")>>}

\* a parser function is entered with lex at position p of toks
StartCall(toks, p) ==
    /\ tokens = toks
    /\ pos = p
    /\ expressions = <<>>
    /\ pc = "call"
    /\ res = NoRes
    /\ ret = NoRet
    /\ out = <<>>

InitTerm ==
    \/ InitIndex
    \/ InitCall
    \/ InitIf
    \/ InitParen
    \/ \E s \in LoopInputs : Start(s)
    \/ \E m \in 0..MaxTermLen : \E s \in [1..m -> TermAlphabet] :
           Start(s) \/ \E p \in 1..Len(s) + 1 : StartCall(s, p)
    \/ \E s \in LoopInputs : \E p \in 1..Len(s) + 1 : StartCall(s, p)

\* the calls made of the four functions: read_binary_tree with a first token
\* only from read_line, which expects an assignment (ast.rs 445, 481)
ParserCalls ==
    {[fn |-> "read_line"], [fn |-> "read_btree_expression"], [fn |-> "read_function_call"]}
    \cup [fn : {"read_binary_tree"}, first_token : {NoneTok}, expect_assignment : {FALSE},
          lowest_prec : Thresholds]
    \cup [fn : {"read_binary_tree"}, first_token : {IdA, Sep("ParenLeft")},
          expect_assignment : {TRUE}, lowest_prec : {0}]

ResultOf(c, toks, p) ==
    CASE c.fn = "read_line" -> read_line(toks, p)
      [] c.fn = "read_btree_expression" -> read_btree_expression(toks, p, NoneTok)
      [] c.fn = "read_function_call" -> read_function_call(toks, p, "f")
      [] c.fn = "read_binary_tree" ->
            read_binary_tree(toks, p, c.first_token, c.expect_assignment, c.lowest_prec)

\* one call of a parser function and its return; res keeps the call too
CallParser ==
    /\ pc = "call"
    /\ \E c \in ParserCalls : res' = [call |-> c, from |-> pos, result |-> ResultOf(c, tokens, pos)]
    /\ pos' = res'.result.pos
    /\ pc' = "called"
    /\ UNCHANGED <<tokens, expressions, ret, out>>

NextTerm == Next \/ CallParser

\* the control point moves on: in each of the three places a step of NextTerm
\* is possible, and each step changes pc
Advance ==
    /\ pc \in {"read_line", "match", "call"}
    /\ pc' \in {"read_line", "match", "done", "panic", "called"}
    /\ pc' # pc

\* the program runs: it does not stay for ever where a step is possible
SpecTerm == InitTerm /\ [][NextTerm]_vars /\ WF_pc(Advance)

\* the call returned Ok, and not read_line's Ok(None)
Succeeded == pc = "called" /\ res.result.ok /\ (res.call.fn = "read_line" => res.result.some)

\* C25: a parser function that returns Ok (read_line: Ok(Some)) has consumed at
\* least one token and none beyond the end, so every iteration of a loop that
\* goes on has consumed one; an iteration of the loop of AST::new that goes on
\* has moved lex forward; and AST::new, once entered, returns.
C25_Terminates ==
    /\ [](Succeeded => (res.from < res.result.pos /\ res.result.pos <= Len(tokens) + 1))
    /\ [][(pc = "read_line" /\ pc' = "match" /\ res'.ok /\ res'.some) => pos < pos']_vars
    /\ (pc = "read_line") ~> Returned

\* read_btree_expression entered at the second b of a long expression has
\* returned b . c [ + d ], five tokens on
C25_Witness ==
    /\ Succeeded
    /\ res.call.fn = "read_btree_expression"
    /\ tokens \in LoopInputs
    /\ tokens[res.from] = IdB
    /\ res.result.pos = res.from + 7
    /\ res.result.expr = IndexNode(DerefNode(LiteralIdentifier("b"), "c"),
                                   <<Prefixed("Add", LiteralIdentifier("d"))>>)

(***************************************************************************)
(* What AST::new has consumed when it returns Ok, over the inputs of the   *)
(* families above.                                                         *)
(***************************************************************************)
InitWhole ==
    \/ InitEmpty
    \/ InitIf
    \/ InitParen
    \/ InitIndex
    \/ InitCall
    \/ InitFor
    \/ \E s \in SmallStmts \cup LoopInputs : Start(s)

SpecWhole == InitWhole /\ [][Next]_vars

\* the tokens that leave a trace in the tree: all but the separators
Worded(tok) == tok.t \in {"Identifier", "Real", "String", "Operator", "Keyword"}

\* '=' and '==' taken as one: read_binary_tree makes Equal of '=' in expressions
SameEqual(tok) == IF tok = Op("Equal") THEN Op("Assign") ELSE tok

\* the tokens a tree was made of, separators left out, in the order in which
\* the source has them: do body until cond, and a[i] and a.b without operator
RECURSIVE Words(_)
Words(e) ==
    LET Each(es) == Flatten([i \in 1..Len(es) |-> Words(es[i])]) IN
    CASE e.k = "LiteralIdentifier" -> <<Ident(e.v)>>
      [] e.k = "LiteralReal" -> <<RealTok(e.v)>>
      [] e.k = "LiteralString" -> <<StringTok(e.v)>>
      [] e.k = "Unary" -> <<Op(e.op)>> \o Words(e.child)
      [] e.k = "Binary" ->
            IF e.op \in {"Deref", "Index"} THEN Words(e.left) \o Words(e.right)
            ELSE Words(e.left) \o <<SameEqual(Op(e.op))>> \o Words(e.right)
      [] e.k = "DoUntil" -> <<Kw("Do")>> \o Words(e.body) \o <<Kw("Until")>> \o Words(e.cond)
      [] e.k = "For" -> <<Kw("For")>> \o Each(<<e.start, e.cond, e.step, e.body>>)
      [] e.k = "Function" -> <<Ident(e.name)>> \o Each(e.params)
      [] e.k = "Group" -> Each(e.children)
      [] e.k = "If" ->
            <<Kw("If")>> \o Words(e.cond) \o Words(e.body)
                \o (IF e.else_body = NoneExpr THEN <<>> ELSE <<Kw("Else")>> \o Words(e.else_body))
      [] e.k = "Repeat" -> <<Kw("Repeat")>> \o Words(e.count) \o Words(e.body)
      [] e.k = "Switch" -> <<Kw("Switch")>> \o Words(e.input) \o Words(e.body)
      [] e.k = "With" -> <<Kw("With")>> \o Words(e.target) \o Words(e.body)
      [] e.k = "While" -> <<Kw("While")>> \o Words(e.cond) \o Words(e.body)
      [] e.k = "Var" -> <<Kw("Var")>> \o [i \in 1..Len(e.vars) |-> Ident(e.vars[i])]
      [] e.k = "Case" -> <<Kw("Case")>> \o Words(e.child)
      [] e.k = "Return" -> <<Kw("Return")>> \o Words(e.child)
      [] e.k = "Default" -> <<Kw("Default")>>
      [] e.k = "Continue" -> <<Kw("Continue")>>
      [] e.k = "Break" -> <<Kw("Break")>>
      [] e.k = "Exit" -> <<Kw("Exit")>>
      [] e.k = "Nop" -> <<>>

\* C26: when AST::new returns Ok, lex is past the last token, and the names,
\* literals, operators and keywords of the returned tree, read off in source
\* order, are those of the input, each once and in the same order; lex never
\* moves back.
C26_AllConsumed ==
    /\ pos <= Len(tokens) + 1
    /\ pc = "match" => res.pos >= 1
    /\ ReturnedOk =>
         /\ pos = Len(tokens) + 1
         /\ Flatten([i \in 1..Len(ret.expressions) |-> Words(ret.expressions[i])])
              = LET kept == SelectSeq(tokens, Worded)
                IN [i \in 1..Len(kept) |-> SameEqual(kept[i])]

\* the for statement of LoopInputs has been read to its end
C26_Witness ==
    /\ ReturnedOk
    /\ tokens = <<Kw("For"), Sep("ParenLeft"), IdI, Op("Assign"), One, Semi, IdI,
                  Op("LessThan"), One, Semi, IdI, Op("AssignAdd"), One, Semi, Semi,
                  Sep("ParenRight"), Semi>>
    /\ pos = 18
    /\ Words(ret.expressions[1]) =
         <<Kw("For"), IdI, Op("Assign"), One, IdI, Op("LessThan"), One, IdI,
           Op("AssignAdd"), One>>

(***************************************************************************)
(* Statements that are a function call: f ( a ) and what follows it, at    *)
(* the top level, in braces and as the body of an if.                      *)
(***************************************************************************)
CallStmt == <<IdF, Sep("ParenLeft"), IdA, Sep("ParenRight")>>
CallNode == Function("f", <<LiteralIdentifier("a")>>)

\* what is written after the call: a postfix chain or an operator with what
\* would complete an assignment or an expression
Attachments ==
    {post \o <<Op("Assign"), One>> : post \in PostfixChains \ {<<>>}}
    \cup {<<Op(o), One>> : o \in LexerOps}
    \cup {<<Sep("Period"), IdC>>, <<Sep("BracketLeft"), One, Sep("BracketRight")>>}
\* statements after the call
NextStmts == {<<>>, <<Semi>>, <<Kw("Break")>>, <<IdC, Op("Assign"), One>>, CallStmt}
CallContexts == {"top", "braces", "if"}

CallStmtInput(ctx, follow) ==
    CASE ctx = "top" -> CallStmt \o follow
      [] ctx = "braces" -> <<Sep("BraceLeft")>> \o CallStmt \o follow \o <<Sep("BraceRight")>>
      [] ctx = "if" -> <<Kw("If"), One>> \o CallStmt \o follow

InitCallStmt ==
    \/ \E ctx \in CallContexts, follow \in Attachments \cup NextStmts :
           Start(CallStmtInput(ctx, follow))
    \/ \E follow \in Attachments : Start(<<IdC, Op("Assign")>> \o CallStmt \o follow)

SpecCallStmt == InitCallStmt /\ [][Next]_vars

\* the statements ctx makes of the call and the statement after it
CallStmtAst(ctx, follow) ==
    LET next == IF follow = <<>> THEN <<>> ELSE Kept(<<StmtOf(follow)>>) IN
    CASE ctx = "top" -> OkAst(<<CallNode>> \o next)
      [] ctx = "braces" -> OkAst(<<Group(<<CallNode>> \o next)>>)
      [] ctx = "if" -> OkAst(<<IfNode(LiteralReal("1"), CallNode, NoneExpr)>> \o next)

\* C29: a statement f ( a ) ends at the closing paren: a postfix chain or an
\* operator after it begins the next statement, which no such token can, so the
\* input is rejected with the error of an invalid first token, that token
\* the last one read; a statement after the call is read as the next one.
C29_CallStatementAlone ==
    Returned =>
        \A ctx \in CallContexts :
            /\ \A follow \in Attachments :
                   tokens = CallStmtInput(ctx, follow) =>
                       /\ ~ret.ok
                       /\ ret.err = (IF follow[1].t = "Separator"
                                     THEN "Invalid Separator at beginning of expression"
                                     ELSE "Invalid token at beginning of expression")
                       /\ tokens[pos - 1] = follow[1]
                       /\ pos = Len(CallStmtInput(ctx, <<follow[1]>>))
                                - (IF ctx = "braces" THEN 1 ELSE 0) + 1
            /\ \A follow \in NextStmts :
                   tokens = CallStmtInput(ctx, follow) => ret = CallStmtAst(ctx, follow)

\* f ( a ) . c = 1 has been rejected at the period
C29_Witness ==
    /\ ReturnedErr
    /\ tokens = CallStmt \o <<Sep("Period"), IdC, Op("Assign"), One>>
    /\ ret.err = "Invalid Separator at beginning of expression"
    /\ pos = 6

\* c = f ( a ) . c has been read: in an expression the chain is attached
C29_AttachedInExpression ==
    /\ ReturnedOk
    /\ tokens = <<IdC, Op("Assign")>> \o CallStmt \o <<Sep("Period"), IdC>>
    /\ ret.expressions = <<Binary("Assign", LiteralIdentifier("c"), DerefNode(CallNode, "c"))>>

(***************************************************************************)
(* Where Nop stands in a returned tree.                                    *)
(***************************************************************************)
\* the fields of a node that hold an expression or a list, as against a body,
\* an else_body or the start or step of a for
ExprFields(e) ==
    CASE e.k = "Unary" -> <<e.child>>
      [] e.k = "Binary" -> <<e.left, e.right>>
      [] e.k = "DoUntil" -> <<e.cond>>
      [] e.k = "For" -> <<e.cond>>
      [] e.k = "Function" -> e.params
      [] e.k = "Group" -> e.children
      [] e.k = "If" -> <<e.cond>>
      [] e.k = "Repeat" -> <<e.count>>
      [] e.k = "Switch" -> <<e.input>>
      [] e.k = "With" -> <<e.target>>
      [] e.k = "While" -> <<e.cond>>
      [] e.k \in {"Case", "Return"} -> <<e.child>>
      [] OTHER -> <<>>

\* body, else_body, start and step
BodyFields(e) ==
    CASE e.k = "DoUntil" -> <<e.body>>
      [] e.k = "For" -> <<e.start, e.step, e.body>>
      [] e.k = "If" -> IF e.else_body = NoneExpr THEN <<e.body>> ELSE <<e.body, e.else_body>>
      [] e.k \in {"Repeat", "Switch", "With", "While"} -> <<e.body>>
      [] OTHER -> <<>>

Holds(fields, x) == \E i \in 1..Len(fields) : fields[i] = x

\* C30: in a returned AST no statement of the top level or of a Group is Nop,
\* and no condition, count, input, target, operand, parameter, dimension or
\* child of Case or Return is; every field of a node is one of these or a
\* body, an else_body or the start or step of a for.
C30_NopPlaces ==
    ReturnedOk =>
        LET nodes == AstNodes(ret.expressions) IN
        /\ ~Holds(ret.expressions, Nop)
        /\ \A i \in 1..Len(nodes) :
               /\ ~Holds(ExprFields(nodes[i]), Nop)
               /\ \A j \in 1..Len(Children(nodes[i])) :
                      \/ Holds(ExprFields(nodes[i]), Children(nodes[i])[j])
                      \/ Holds(BodyFields(nodes[i]), Children(nodes[i])[j])

\* if a ; else ; has been read: Nop is the body and the else_body
C30_Witness ==
    /\ ReturnedOk
    /\ tokens = <<Kw("If"), IdA, Semi, Kw("Else"), Semi>>
    /\ ret.expressions = <<IfNode(LiteralIdentifier("a"), Nop, Nop)>>

\* a for has been read with Nop as its start, its step and its body
C30_ForWitness ==
    /\ ReturnedOk
    /\ \E i \in 1..Len(ret.expressions) :
           /\ ret.expressions[i].k = "For"
           /\ ret.expressions[i].start = Nop
           /\ ret.expressions[i].step = Nop
           /\ ret.expressions[i].body = Nop

====
